---- MODULE Spec2Model ----
(***************************************************************************)
(* Model of the OCPP 1.6 Smart Charging engine of the EV charging station  *)
(* simulator: the profile codec (parse / validate), the per-connector      *)
(* profile store (add_profile / clear_profile), the schedule resolver      *)
(* (get_current_limit), the station's inbound Smart Charging handlers and  *)
(* the transactions worker of a station session.                           *)
(*                                                                         *)
(* Time is counted in whole seconds since 1970-01-01T00:00:00Z (a          *)
(* Thursday).  Optional values (Python None) are modelled as sequences of  *)
(* length 0 or 1.  OCPP payloads (Python dicts) are TLA+ records whose     *)
(* DOMAIN is the set of keys present.                                      *)
(***************************************************************************)
EXTENDS Integers, Sequences, FiniteSets, TLC

VARIABLES
    profiles,   \* ChargingProfileManager.profiles: connector_id -> list of ChargingProfile
    now,        \* the wall clock (datetime.now(timezone.utc)), in seconds
    last,       \* the last store / handler / resolver call: arguments, result, store before it
    txPc,       \* position of auto_transaction_loop
    tx,         \* locals of auto_transaction_loop for the open transaction
    tick,       \* outcome of the last metering tick of auto_transaction_loop
    mgr,        \* StationManager: tasks, station_profiles, station_usage,
                \* station_energy_kwh, station_owners, station_chargepoints
    sims,       \* position of each station's safe_sim / simulate_station coroutine
    mainPc,     \* position of simulate_station between its create_task calls and asyncio.gather
    hbPc,       \* position of send_heartbeat_loop
    sent,       \* the OCPP actions the session has sent so far
    CURRENT_PRICE_PER_KWH,  \* the module-level price of controller_api
    scales      \* the scale_to calls in flight: their locals and the tasks they await

vars == <<profiles, now, last, txPc, tx, tick, mgr, sims,
         mainPc, hbPc, sent, CURRENT_PRICE_PER_KWH, scales>>

-----------------------------------------------------------------------------
(* Bounds *)

MaxConnector == 2      \* connectors 0 (charge point) .. MaxConnector
MaxStored == 2         \* most profiles held by the store at once
MaxTime == 2           \* the clock runs over 0 .. MaxTime

Connectors == 0 .. MaxConnector
TimePoints == 0 .. MaxTime

-----------------------------------------------------------------------------
(* Optional values *)

None == <<>>
Some(v) == <<v>>
IsNone(o) == Len(o) = 0
Val(o) == o[1]

\* dict.get(key): the value, or None when the key is absent
Get(d, k) == IF k \in DOMAIN d THEN Some(d[k]) ELSE None

\* a dict without one of its keys
Without(d, k) == [x \in (DOMAIN d) \ {k} |-> d[x]]

-----------------------------------------------------------------------------
(* Enums of charging_profile_manager.py *)

ChargingProfilePurpose == {"ChargePointMaxProfile", "TxDefaultProfile", "TxProfile"}
ChargingProfileKind == {"Absolute", "Recurring", "Relative"}
RecurrencyKind == {"Daily", "Weekly"}
ChargingRateUnit == {"W", "A"}

-----------------------------------------------------------------------------
(* Profile codec: parse_charging_profile *)

RequiredFields == {"chargingProfileId", "stackLevel", "chargingProfilePurpose",
                   "chargingProfileKind", "chargingSchedule"}

ParseError(kind) == [ok |-> FALSE, error |-> kind]

\* one entry of chargingSchedulePeriod -> ChargingSchedulePeriod
ParsePeriod(pd) ==
    [start_period |-> pd.startPeriod,
     limit |-> pd.limit,
     number_phases |-> Get(pd, "numberPhases")]

\* dict -> ChargingProfile, or the ValueError it raises
parse_charging_profile(d) ==
    IF ~(RequiredFields \subseteq DOMAIN d)
    THEN ParseError("MissingField")
    ELSE LET sd == d.chargingSchedule IN
    IF "chargingRateUnit" \notin DOMAIN sd \/ "chargingSchedulePeriod" \notin DOMAIN sd
    THEN ParseError("MissingField")
    ELSE IF sd.chargingRateUnit \notin ChargingRateUnit
    THEN ParseError("InvalidEnum")
    ELSE IF \E i \in 1 .. Len(sd.chargingSchedulePeriod) :
               ~({"startPeriod", "limit"} \subseteq DOMAIN sd.chargingSchedulePeriod[i])
    THEN ParseError("MissingField")
    ELSE IF d.chargingProfilePurpose \notin ChargingProfilePurpose
    THEN ParseError("InvalidEnum")
    ELSE IF d.chargingProfileKind \notin ChargingProfileKind
    THEN ParseError("InvalidEnum")
    ELSE IF "recurrencyKind" \in DOMAIN d /\ d.recurrencyKind \notin RecurrencyKind
    THEN ParseError("InvalidEnum")
    ELSE
      [ok |-> TRUE,
       profile |->
         [charging_profile_id |-> d.chargingProfileId,
          stack_level |-> d.stackLevel,
          charging_profile_purpose |-> d.chargingProfilePurpose,
          charging_profile_kind |-> d.chargingProfileKind,
          charging_schedule |->
            [charging_rate_unit |-> sd.chargingRateUnit,
             charging_schedule_period |->
                [i \in 1 .. Len(sd.chargingSchedulePeriod) |->
                    ParsePeriod(sd.chargingSchedulePeriod[i])],
             duration |-> Get(sd, "duration"),
             start_schedule |-> Get(sd, "startSchedule"),
             min_charging_rate |-> Get(sd, "minChargingRate")],
          transaction_id |-> Get(d, "transactionId"),
          recurrency_kind |-> Get(d, "recurrencyKind"),
          valid_from |-> Get(d, "validFrom"),
          valid_to |-> Get(d, "validTo")]]

-----------------------------------------------------------------------------
(* Profile codec: validate_charging_profile *)

\* the first failed check, or "" when the profile is valid
ValidationError(p) ==
    LET periods == p.charging_schedule.charging_schedule_period IN
    IF p.charging_profile_id <= 0 THEN "chargingProfileId must be positive"
    ELSE IF p.stack_level < 0 THEN "stackLevel must be non-negative"
    ELSE IF Len(periods) = 0 THEN "chargingSchedulePeriod array cannot be empty"
    ELSE IF \E i \in 2 .. Len(periods) : periods[i].start_period < periods[i-1].start_period
    THEN "chargingSchedulePeriod must be sorted by startPeriod ascending"
    ELSE IF \E i \in 1 .. Len(periods) : periods[i].limit <= 0
    THEN "non-positive limit"
    ELSE IF p.charging_profile_purpose = "TxProfile" /\ IsNone(p.transaction_id)
    THEN "transactionId is required for TxProfile purpose"
    ELSE IF p.charging_profile_kind = "Recurring" /\ IsNone(p.recurrency_kind)
    THEN "recurrencyKind is required for Recurring profile kind"
    ELSE IF p.charging_profile_kind = "Absolute" /\ IsNone(p.charging_schedule.start_schedule)
    THEN "startSchedule is required for Absolute profile kind"
    ELSE ""

validate_charging_profile(p) == ValidationError(p) = ""

-----------------------------------------------------------------------------
(* Profile store: ChargingProfileManager.add_profile / clear_profile *)

\* the store right after construction: an empty dict
EmptyStore == [c \in {} |-> <<>>]

\* self.profiles.get(connector_id, []): get_profiles_for_connector
get_profiles_for_connector(ps, c) == IF c \in DOMAIN ps THEN ps[c] ELSE <<>>

\* list(self.profiles.keys())
get_all_connector_ids(ps) == DOMAIN ps

\* "if connector_id not in self.profiles: self.profiles[connector_id] = []"
WithConnector(ps, c) == IF c \in DOMAIN ps THEN ps ELSE ps @@ (c :> <<>>)

\* the conflict loop of add_profile: some stored profile of the connector has
\* the purpose and the stackLevel of the new one
StackLevelConflict(list, p) ==
    \E i \in 1 .. Len(list) :
        /\ list[i].charging_profile_purpose = p.charging_profile_purpose
        /\ list[i].stack_level = p.stack_level

\* the list comprehension that drops the stored profile with the new one's id
RemoveId(list, id) ==
    LET Keep(q) == q.charging_profile_id # id IN SelectSeq(list, Keep)

\* add_profile without the conflict loop
add_profile_unchecked(ps, c, p) ==
    IF ~validate_charging_profile(p)
    THEN [ok |-> FALSE, msg |-> "Validation failed", profiles |-> ps]
    ELSE LET ps1 == WithConnector(ps, c) IN
         [ok |-> TRUE, msg |-> "Profile accepted",
          profiles |-> [ps1 EXCEPT ![c] =
                           Append(RemoveId(ps1[c], p.charging_profile_id), p)]]

\* add_profile that drops the stored profile with the new id before it looks
\* for a conflict, and keeps it dropped when it rejects
add_profile_remove_first(ps, c, p) ==
    IF ~validate_charging_profile(p)
    THEN [ok |-> FALSE, msg |-> "Validation failed", profiles |-> ps]
    ELSE LET ps1 == WithConnector(ps, c)
             ps2 == [ps1 EXCEPT ![c] = RemoveId(ps1[c], p.charging_profile_id)]
         IN
         IF StackLevelConflict(ps2[c], p)
         THEN [ok |-> FALSE, msg |-> "StackLevel conflict", profiles |-> ps2]
         ELSE [ok |-> TRUE, msg |-> "Profile accepted",
               profiles |-> [ps2 EXCEPT ![c] = Append(ps2[c], p)]]

\* add_profile: (success, message) and the store it leaves
add_profile(ps, c, p) ==
    IF ~validate_charging_profile(p)
    THEN [ok |-> FALSE, msg |-> "Validation failed", profiles |-> ps]
    ELSE LET ps1 == WithConnector(ps, c) IN
         IF StackLevelConflict(ps1[c], p)
         THEN [ok |-> FALSE, msg |-> "StackLevel conflict", profiles |-> ps1]
         ELSE [ok |-> TRUE, msg |-> "Profile accepted",
               profiles |-> [ps1 EXCEPT ![c] =
                                Append(RemoveId(ps1[c], p.charging_profile_id), p)]]

\* matches_criteria that matches when any one of the supplied filters matches
matches_any_criterion(q, profile_id, purpose, stack_level) ==
    \/ IsNone(profile_id) /\ IsNone(purpose) /\ IsNone(stack_level)
    \/ ~IsNone(profile_id) /\ q.charging_profile_id = Val(profile_id)
    \/ ~IsNone(purpose) /\ q.charging_profile_purpose = Val(purpose)
    \/ ~IsNone(stack_level) /\ q.stack_level = Val(stack_level)

\* matches_criteria of clear_profile; a filter that is None is not applied
matches_criteria(q, profile_id, purpose, stack_level) ==
    /\ IsNone(profile_id) \/ q.charging_profile_id = Val(profile_id)
    /\ IsNone(purpose) \/ q.charging_profile_purpose = Val(purpose)
    /\ IsNone(stack_level) \/ q.stack_level = Val(stack_level)

\* clear_profile: the count removed and the store it leaves
clear_profile(ps, c, profile_id, purpose, stack_level) ==
    IF c \notin DOMAIN ps
    THEN [count |-> 0, profiles |-> ps]
    ELSE LET Keep(q) == ~matches_criteria(q, profile_id, purpose, stack_level)
             kept == SelectSeq(ps[c], Keep)
         IN [count |-> Len(ps[c]) - Len(kept),
             profiles |-> [ps EXCEPT ![c] = kept]]

-----------------------------------------------------------------------------
(* Schedule resolver: ChargingProfileManager.get_current_limit *)

SecondsPerDay == 86400
DaysPerWeek == 7

\* datetime.weekday() of an instant (0 = Monday); the epoch is a Thursday
Weekday(t) == ((t \div SecondsPerDay) + 3) % DaysPerWeek

\* reference_time.replace(hour, minute, second) with the time of day of start
ReplaceTimeOfDay(reference_time, start) ==
    (reference_time - (reference_time % SecondsPerDay)) + (start % SecondsPerDay)

\* a schedule start that keeps today's (this week's) projection even when it
\* lies after the reference time
get_effective_schedule_start_today(p, reference_time, transaction_start) ==
    LET kind == p.charging_profile_kind
        start == p.charging_schedule.start_schedule
    IN
    IF kind = "Absolute" THEN start
    ELSE IF kind = "Recurring" THEN
        IF IsNone(start) THEN None
        ELSE IF p.recurrency_kind = Some("Daily") THEN
            Some(ReplaceTimeOfDay(reference_time, Val(start)))
        ELSE IF p.recurrency_kind = Some("Weekly") THEN
            LET days_diff == (Weekday(reference_time) - Weekday(Val(start))) % DaysPerWeek
            IN Some(ReplaceTimeOfDay(reference_time, Val(start)) - days_diff * SecondsPerDay)
        ELSE None
    ELSE IF kind = "Relative" THEN transaction_start
    ELSE None

\* _get_effective_schedule_start
get_effective_schedule_start(p, reference_time, transaction_start) ==
    LET kind == p.charging_profile_kind
        start == p.charging_schedule.start_schedule
    IN
    IF kind = "Absolute" THEN start
    ELSE IF kind = "Recurring" THEN
        IF IsNone(start) THEN None
        ELSE IF p.recurrency_kind = Some("Daily") THEN
            LET today_start == ReplaceTimeOfDay(reference_time, Val(start)) IN
            IF today_start > reference_time
            THEN Some(today_start - SecondsPerDay)
            ELSE Some(today_start)
        ELSE IF p.recurrency_kind = Some("Weekly") THEN
            LET days_diff == (Weekday(reference_time) - Weekday(Val(start))) % DaysPerWeek
                this_week_start == ReplaceTimeOfDay(reference_time, Val(start))
                                      - days_diff * SecondsPerDay
            IN
            IF this_week_start > reference_time
            THEN Some(this_week_start - DaysPerWeek * SecondsPerDay)
            ELSE Some(this_week_start)
        ELSE None
    ELSE IF kind = "Relative" THEN transaction_start
    ELSE None

\* the period loop of _get_limit_at_time: the last period reached before the
\* first one that starts after elapsed
RECURSIVE ApplicablePeriod(_, _, _, _)
ApplicablePeriod(periods, i, elapsed, found) ==
    IF i > Len(periods) THEN found
    ELSE IF periods[i].start_period <= elapsed
         THEN ApplicablePeriod(periods, i + 1, elapsed, Some(periods[i]))
         ELSE found

\* a limit that ends one second before the duration is reached
get_limit_at_time_before_duration(p, target_time, transaction_start) ==
    LET schedule == p.charging_schedule
        schedule_start == get_effective_schedule_start(p, target_time, transaction_start)
    IN
    IF IsNone(schedule_start) THEN None
    ELSE LET elapsed == target_time - Val(schedule_start) IN
         IF elapsed < 0 THEN None
         ELSE IF ~IsNone(schedule.duration) /\ elapsed >= Val(schedule.duration) THEN None
         ELSE LET applicable_period ==
                      ApplicablePeriod(schedule.charging_schedule_period, 1, elapsed, None)
              IN IF IsNone(applicable_period) THEN None
                 ELSE Some(Val(applicable_period).limit)

\* _get_limit_at_time
get_limit_at_time(p, target_time, transaction_start) ==
    LET schedule == p.charging_schedule
        schedule_start == get_effective_schedule_start(p, target_time, transaction_start)
    IN
    IF IsNone(schedule_start) THEN None
    ELSE LET elapsed == target_time - Val(schedule_start) IN
         IF elapsed < 0 THEN None
         ELSE IF ~IsNone(schedule.duration) /\ elapsed > Val(schedule.duration) THEN None
         ELSE LET applicable_period ==
                      ApplicablePeriod(schedule.charging_schedule_period, 1, elapsed, None)
              IN IF IsNone(applicable_period) THEN None
                 ELSE Some(Val(applicable_period).limit)

\* a validity test that looks at validFrom only
is_profile_valid_from(p, check_time) ==
    ~(~IsNone(p.valid_from) /\ check_time < Val(p.valid_from))

\* _is_profile_valid_at_time
is_profile_valid_at_time(p, check_time) ==
    /\ ~(~IsNone(p.valid_from) /\ check_time < Val(p.valid_from))
    /\ ~(~IsNone(p.valid_to) /\ check_time > Val(p.valid_to))

\* a candidate list with the profiles of the connector asked for only
CollectProfilesOwnOnly(ps, connector_id) ==
    IF connector_id \in DOMAIN ps THEN ps[connector_id] ELSE <<>>

\* the candidate list of get_current_limit: connector 0, then the connector asked for
CollectProfiles(ps, connector_id) ==
    (IF 0 \in DOMAIN ps THEN ps[0] ELSE <<>>)
    \o (IF connector_id # 0 /\ connector_id \in DOMAIN ps THEN ps[connector_id] ELSE <<>>)

\* a TxProfile test that skips the profile only when the query has no transaction id
TxProfileSkippedWithoutId(p, transaction_id) ==
    /\ p.charging_profile_purpose = "TxProfile"
    /\ IsNone(transaction_id)

\* the TxProfile test of get_current_limit: the profile is skipped
TxProfileSkipped(p, transaction_id) ==
    /\ p.charging_profile_purpose = "TxProfile"
    /\ (IsNone(transaction_id) \/ p.transaction_id # transaction_id)

\* the filter loop of get_current_limit
ValidProfiles(all_profiles, transaction_id, t) ==
    LET Keep(p) == is_profile_valid_at_time(p, t) /\ ~TxProfileSkipped(p, transaction_id)
    IN SelectSeq(all_profiles, Keep)

\* the comparison of the minimum loop turned round
HigherLimit(min_limit, limit) ==
    IF IsNone(min_limit) \/ Val(limit) > Val(min_limit) THEN limit ELSE min_limit

\* "if min_limit is None or limit < min_limit: min_limit = limit"
LowerLimit(min_limit, limit) ==
    IF IsNone(min_limit) \/ Val(limit) < Val(min_limit) THEN limit ELSE min_limit

\* the minimum loop of get_current_limit; Relative profiles get no transaction start
RECURSIVE MinLimit(_, _, _, _)
MinLimit(valid_profiles, i, t, min_limit) ==
    IF i > Len(valid_profiles) THEN min_limit
    ELSE LET limit == get_limit_at_time(valid_profiles[i], t, None) IN
         MinLimit(valid_profiles, i + 1, t,
                  IF IsNone(limit) THEN min_limit ELSE LowerLimit(min_limit, limit))

\* get_current_limit, with the clock reading t
get_current_limit(ps, connector_id, transaction_id, t) ==
    MinLimit(ValidProfiles(CollectProfiles(ps, connector_id), transaction_id, t), 1, t, None)

-----------------------------------------------------------------------------
(* Schedule resolver: ChargingProfileManager.get_composite_schedule *)

\* the filter loop of get_composite_schedule: Relative profiles are left out
\* and the validity window is tested once, at start_time
CompositeValidProfiles(all_profiles, start_time) ==
    LET Keep(p) == /\ p.charging_profile_kind # "Relative"
                   /\ is_profile_valid_at_time(p, start_time)
    IN SelectSeq(all_profiles, Keep)

\* purpose_priority.get(purpose, 99)
PurposePriority(purpose) ==
    CASE purpose = "ChargePointMaxProfile" -> 0
      [] purpose = "TxProfile" -> 1
      [] purpose = "TxDefaultProfile" -> 2
      [] OTHER -> 99

\* the sort key (purpose priority, stackLevel) of p is not above that of q
KeyNotAbove(p, q) ==
    LET a == PurposePriority(p.charging_profile_purpose)
        b == PurposePriority(q.charging_profile_purpose)
    IN a < b \/ (a = b /\ p.stack_level <= q.stack_level)

\* valid_profiles.sort(key=...): a stable sort
RECURSIVE SortProfiles(_)
SortProfiles(list) ==
    IF Len(list) <= 1 THEN list
    ELSE LET sorted == SortProfiles(SubSeq(list, 1, Len(list) - 1))
             p == list[Len(list)]
             Before(q) == KeyNotAbove(q, p)
             After(q) == ~KeyNotAbove(q, p)
         IN SelectSeq(sorted, Before) \o <<p>> \o SelectSeq(sorted, After)

\* time_limits: second -> lowest limit, for the seconds of range(duration)
\* at which some profile gives a limit
TimeLimits(valid_profiles, start_time, duration) ==
    LET LimitAt(second) == MinLimit(valid_profiles, 1, start_time + second, None)
        covered == {second \in 0 .. duration - 1 : ~IsNone(LimitAt(second))}
    IN [second \in covered |-> Val(LimitAt(second))]

\* sorted(time_limits.keys())
RECURSIVE SortedSeconds(_)
SortedSeconds(S) ==
    IF S = {} THEN <<>>
    ELSE LET least == CHOOSE x \in S : \A y \in S : x <= y
         IN <<least>> \o SortedSeconds(S \ {least})

\* a ChargingSchedulePeriod of the composite schedule
CompositePeriod(start, limit) ==
    [start_period |-> start, limit |-> limit, number_phases |-> None]

\* the compression loop: a period ends where the limit changes or a second
\* is missing
RECURSIVE Compress(_, _, _, _, _, _)
Compress(time_limits, sorted_seconds, i, current_start, current_limit, periods) ==
    IF i > Len(sorted_seconds)
    THEN Append(periods, CompositePeriod(current_start, current_limit))
    ELSE LET second == sorted_seconds[i]
             limit == time_limits[second]
         IN IF limit # current_limit \/ second # sorted_seconds[i - 1] + 1
            THEN Compress(time_limits, sorted_seconds, i + 1, second, limit,
                          Append(periods, CompositePeriod(current_start, current_limit)))
            ELSE Compress(time_limits, sorted_seconds, i + 1,
                          current_start, current_limit, periods)

\* get_composite_schedule: the ChargingSchedule, or None
get_composite_schedule(ps, connector_id, duration, charging_rate_unit, start_time) ==
    LET all_profiles == CollectProfiles(ps, connector_id)
        valid_profiles == SortProfiles(CompositeValidProfiles(all_profiles, start_time))
        time_limits == TimeLimits(valid_profiles, start_time, duration)
        sorted_seconds == SortedSeconds(DOMAIN time_limits)
    IN IF Len(all_profiles) = 0 THEN None
       ELSE IF Len(valid_profiles) = 0 THEN None
       ELSE IF DOMAIN time_limits = {} THEN None
       ELSE Some([charging_rate_unit |-> charging_rate_unit,
                  charging_schedule_period |->
                      Compress(time_limits, sorted_seconds, 2, sorted_seconds[1],
                               time_limits[sorted_seconds[1]], <<>>),
                  duration |-> Some(duration),
                  start_schedule |-> Some(start_time),
                  min_charging_rate |-> None])

-----------------------------------------------------------------------------
(* Inbound Smart Charging handlers of SimulatedChargePoint *)

\* "try: ... except Exception": an exception raised in the body is caught
HandlerCatches == TRUE

\* on_set_charging_profile: the status answered (or the exception that escapes)
\* and the store it leaves
on_set_charging_profile(ps, connector_id, cs_charging_profiles) ==
    LET parsed == parse_charging_profile(cs_charging_profiles) IN
    IF ~parsed.ok
    THEN IF HandlerCatches
         THEN [status |-> "Rejected", raised |-> FALSE, profiles |-> ps]
         ELSE [status |-> "", raised |-> TRUE, profiles |-> ps]
    ELSE LET added == add_profile(ps, connector_id, parsed.profile) IN
         [status |-> IF added.ok THEN "Accepted" ELSE "Rejected",
          raised |-> FALSE,
          profiles |-> added.profiles]

\* "purpose = ChargingProfilePurpose(purpose_str)" under "if purpose_str:", with
\* the ValueError of an unknown string swallowed: the purpose filter stays None
ClearPurposeFilter(kwargs) ==
    IF "charging_profile_purpose" \in DOMAIN kwargs
       /\ kwargs.charging_profile_purpose # ""
       /\ kwargs.charging_profile_purpose \in ChargingProfilePurpose
    THEN Some(kwargs.charging_profile_purpose)
    ELSE None

\* kwargs.get("connector_id", 0)
ClearConnectorId(kwargs) ==
    IF "connector_id" \in DOMAIN kwargs THEN kwargs.connector_id ELSE 0

\* a scope in which connector 0 is only the charge point's own list
ClearScopeLiteral(ps, connector_id) == {connector_id}

\* the connectors the handler calls clear_profile on
ClearScope(ps, connector_id) ==
    IF connector_id = 0 THEN get_all_connector_ids(ps) ELSE {connector_id}

\* the loop "for conn_id in ...: total_cleared += clear_profile(conn_id, ...)"
RECURSIVE ClearEach(_, _, _, _, _, _)
ClearEach(ps, todo, profile_id, purpose, stack_level, total) ==
    IF todo = {} THEN [count |-> total, profiles |-> ps]
    ELSE LET conn_id == CHOOSE c \in todo : \A d \in todo : c <= d
             cleared == clear_profile(ps, conn_id, profile_id, purpose, stack_level)
         IN ClearEach(cleared.profiles, todo \ {conn_id}, profile_id, purpose,
                      stack_level, total + cleared.count)

\* a handler that gives way after the first connector of its loop
on_clear_charging_profile_first_connector(ps, kwargs) ==
    LET scope == ClearScope(ps, ClearConnectorId(kwargs))
        first == {c \in scope : \A d \in scope : c <= d}
        cleared == ClearEach(ps, first, Get(kwargs, "id"), ClearPurposeFilter(kwargs),
                             Get(kwargs, "stack_level"), 0)
    IN [status |-> IF cleared.count > 0 THEN "Accepted" ELSE "Unknown",
        count |-> cleared.count,
        profiles |-> cleared.profiles]

\* on_clear_charging_profile: the status answered and the store it leaves
on_clear_charging_profile(ps, kwargs) ==
    LET cleared == ClearEach(ps, ClearScope(ps, ClearConnectorId(kwargs)),
                             Get(kwargs, "id"), ClearPurposeFilter(kwargs),
                             Get(kwargs, "stack_level"), 0)
    IN [status |-> IF cleared.count > 0 THEN "Accepted" ELSE "Unknown",
        count |-> cleared.count,
        profiles |-> cleared.profiles]

\* ChargingSchedulePeriod.to_dict
PeriodToDict(period) ==
    [startPeriod |-> period.start_period, limit |-> period.limit]
    @@ (IF IsNone(period.number_phases) THEN <<>>
        ELSE [numberPhases |-> Val(period.number_phases)])

\* ChargingSchedule.to_dict
ScheduleToDict(schedule) ==
    [chargingRateUnit |-> schedule.charging_rate_unit,
     chargingSchedulePeriod |->
        [i \in 1 .. Len(schedule.charging_schedule_period) |->
            PeriodToDict(schedule.charging_schedule_period[i])]]
    @@ (IF IsNone(schedule.duration) THEN <<>> ELSE [duration |-> Val(schedule.duration)])
    @@ (IF IsNone(schedule.start_schedule) THEN <<>>
        ELSE [startSchedule |-> Val(schedule.start_schedule)])
    @@ (IF IsNone(schedule.min_charging_rate) THEN <<>>
        ELSE [minChargingRate |-> Val(schedule.min_charging_rate)])

\* on_get_composite_schedule, with the clock reading t: the response
on_get_composite_schedule(ps, connector_id, duration, kwargs, t) ==
    LET rate_unit_str == IF "charging_rate_unit" \in DOMAIN kwargs
                         THEN kwargs.charging_rate_unit ELSE "W"
        rate_unit == IF rate_unit_str \in ChargingRateUnit THEN rate_unit_str ELSE "W"
        schedule == get_composite_schedule(ps, connector_id, duration, rate_unit, t)
    IN IF ~IsNone(schedule)
       THEN [status |-> "Accepted",
             connector_id |-> Some(connector_id),
             schedule_start |-> Some(t),
             charging_schedule |-> Some(ScheduleToDict(Val(schedule)))]
       ELSE [status |-> "Rejected",
             connector_id |-> None,
             schedule_start |-> None,
             charging_schedule |-> None]

-----------------------------------------------------------------------------
(* Inputs: the SetChargingProfile payloads, clear filters and transaction  *)
(* ids the environment sends                                               *)

Period(s, l) == [startPeriod |-> s, limit |-> l]

Schedule(start, periods) ==
    [chargingRateUnit |-> "W", chargingSchedulePeriod |-> periods, startSchedule |-> start]

Payload(id, stack, purpose, kind, schedule) ==
    [chargingProfileId |-> id, stackLevel |-> stack, chargingProfilePurpose |-> purpose,
     chargingProfileKind |-> kind, chargingSchedule |-> schedule]

TxA == 1234
TxB == 5678

CpMax22k == Payload(1, 0, "ChargePointMaxProfile", "Absolute", Schedule(0, <<Period(0, 22000)>>))
TxDef11k == Payload(2, 0, "TxDefaultProfile", "Absolute", Schedule(0, <<Period(0, 11000)>>))
\* the id, purpose and stackLevel of TxDef11k with another limit
TxDef8k == Payload(2, 0, "TxDefaultProfile", "Absolute", Schedule(0, <<Period(0, 8000)>>))
\* the id of TxDef11k on another stackLevel
TxDef8kLevel1 == Payload(2, 1, "TxDefaultProfile", "Absolute", Schedule(0, <<Period(0, 8000)>>))
\* another id on the purpose and stackLevel of TxDef11k
TxDef7k == Payload(3, 0, "TxDefaultProfile", "Absolute", Schedule(0, <<Period(0, 7000)>>))
TxProf5k == Payload(4, 0, "TxProfile", "Absolute", Schedule(0, <<Period(0, 5000)>>))
               @@ [transactionId |-> TxA]
\* starts at second 1, steps down at elapsed 1, valid until second 2
Stepped == Payload(5, 1, "ChargePointMaxProfile", "Absolute",
                   Schedule(1, <<Period(0, 16000), Period(1, 6000)>>) @@ [duration |-> 1])
              @@ [validTo |-> 2]
Relative3k == Payload(6, 2, "TxDefaultProfile", "Relative",
                      [chargingRateUnit |-> "W", chargingSchedulePeriod |-> <<Period(0, 3000)>>])
Daily9k == Payload(7, 3, "TxDefaultProfile", "Recurring", Schedule(1, <<Period(0, 9000)>>))
              @@ [recurrencyKind |-> "Daily"]

ValidPayloads ==
    {CpMax22k, TxDef11k, TxDef8k, TxDef8kLevel1, TxDef7k, TxProf5k, Stepped, Relative3k, Daily9k}

BadPayloads ==
    {Without(CpMax22k, "stackLevel"),                          \* missing field
     [CpMax22k EXCEPT !.chargingProfilePurpose = "Bogus"],     \* invalid enum value
     [CpMax22k EXCEPT !.chargingProfileId = 0],                \* fails validation
     Without(TxProf5k, "transactionId"),                        \* fails validation
     [TxDef11k EXCEPT !.chargingSchedule.chargingSchedulePeriod = <<Period(0, 0)>>]}

Payloads == ValidPayloads \cup BadPayloads

\* the ChargingProfile objects handed to add_profile directly
ProfileObjects == {parse_charging_profile(d).profile :
                      d \in {x \in Payloads : parse_charging_profile(x).ok}}

Filter(id, purpose, stack) == [profile_id |-> id, purpose |-> purpose, stack_level |-> stack]

\* (profile_id, purpose, stack_level) arguments of clear_profile
Filters ==
    {Filter(None, None, None),
     Filter(Some(2), None, None),
     Filter(None, Some("TxDefaultProfile"), None),
     Filter(None, None, Some(0)),
     Filter(None, Some("TxDefaultProfile"), Some(0)),
     Filter(Some(1), Some("TxDefaultProfile"), None)}

\* keyword arguments of ClearChargingProfile requests
ClearRequests ==
    LET FilterArgs(f) ==
            (IF IsNone(f.profile_id) THEN <<>> ELSE [id |-> Val(f.profile_id)])
            @@ (IF IsNone(f.purpose) THEN <<>> ELSE [charging_profile_purpose |-> Val(f.purpose)])
            @@ (IF IsNone(f.stack_level) THEN <<>> ELSE [stack_level |-> Val(f.stack_level)])
    IN {FilterArgs(f) : f \in Filters}
       \cup {FilterArgs(f) @@ [connector_id |-> c] : f \in Filters, c \in Connectors}
       \cup {[charging_profile_purpose |-> "Bogus", connector_id |-> 1],
             [charging_profile_purpose |-> "", stack_level |-> 0]}

TransactionIds == {None, Some(TxA), Some(TxB)}

-----------------------------------------------------------------------------
(* State after construction *)

NoCall == [op |-> "none", args |-> <<>>, result |-> <<>>, before |-> EmptyStore]

\* the closure variables and locals of auto_transaction_loop before any session:
\* the station profile and price simulate_station was called with, no
\* transaction open.  self_energy is kept in watt-seconds (3600 per Wh).
NoTransaction ==
    [profile |-> "default", current_price |-> 20,
     current_hour |-> 0, transaction_id |-> None, self_energy |-> 0,
     iteration |-> 0, max_iterations |-> 0]

\* no metering tick has been taken
NoTick == [outcome |-> "none"]

\* StationManager.__init__: every dict empty.  A dict is a function from the
\* station ids to an optional value; stopping holds the stations whose
\* stop_station is awaiting its cancelled task.
StationIds == {"PY-SIM-0001", "PY-SIM-0002"}
Users == {1, 2}
EmptyDict == [sid \in StationIds |-> None]
NoStations ==
    [tasks |-> EmptyDict, station_profiles |-> EmptyDict, station_usage |-> EmptyDict,
     station_energy_kwh |-> EmptyDict, station_chargepoints |-> EmptyDict,
     station_owners |-> EmptyDict,
     stopping |-> {}]

\* the coroutine of a station: where safe_sim stands (pc), the websocket
\* simulate_station opened (ws) and whether its recv, heartbeat and
\* transactions workers are alive
NoSim == [pc |-> "none", ws |-> "none", workers |-> FALSE]
NoSims == [sid \in StationIds |-> NoSim]

\* the two requests POST /stations/scale that may be in flight together
ScaleCalls == {"A", "B"}

\* a scale_to call: where it stands and its locals
NoScale ==
    [pc |-> "idle", user_id |-> 0, target_count |-> 0, profile_name |-> "",
     current_ids |-> <<>>, i |-> 0, raised |-> None]

\* no scale_to call in flight.  waiters: the calls suspended in "await task"
\* of each station; ready: the calls whose task has ended, in the order the
\* event loop resumes them; before: the manager when the first call began
NoScales ==
    [calls |-> [k \in ScaleCalls |-> NoScale],
     waiters |-> [sid \in StationIds |-> <<>>],
     ready |-> <<>>,
     before |-> None]

\* CURRENT_PRICE_PER_KWH when controller_api is imported
InitialPrice == 20

Init ==
    /\ profiles = EmptyStore
    /\ now = 0
    /\ last = NoCall
    /\ txPc = "created"
    /\ tx = NoTransaction
    /\ tick = NoTick
    /\ mgr = NoStations
    /\ sims = NoSims
    /\ mainPc = "none"
    /\ hbPc = "none"
    /\ sent = {}
    /\ scales = NoScales
    /\ CURRENT_PRICE_PER_KWH = InitialPrice

\* number of profiles held over all connectors
Stored(ps) ==
    LET RECURSIVE Sum(_)
        Sum(S) == IF S = {} THEN 0
                  ELSE LET c == CHOOSE x \in S : TRUE IN Len(ps[c]) + Sum(S \ {c})
    IN Sum(DOMAIN ps)

\* the store stays within the modelled size
Fits(ps) == Stored(ps) <= MaxStored

\* no call is in progress: the previous one has returned to its caller
Idle == last.op = "none"

-----------------------------------------------------------------------------
(* Operations on the store, the handlers and the resolver *)

\* the wall clock moves on
ClockTick ==
    /\ Idle
    /\ now < MaxTime
    /\ now' = now + 1
    /\ UNCHANGED <<profiles, last, txPc, tx, tick, mgr, sims, mainPc, hbPc, sent, CURRENT_PRICE_PER_KWH, scales>>

\* ChargingProfileManager.add_profile(connector_id, profile)
AddProfile(c, p) ==
    /\ Idle
    /\ LET r == add_profile(profiles, c, p) IN
       /\ Fits(r.profiles)
       /\ profiles' = r.profiles
       /\ last' = [op |-> "add_profile",
                   args |-> [connector_id |-> c, profile |-> p],
                   result |-> [ok |-> r.ok, msg |-> r.msg],
                   before |-> profiles]
    /\ UNCHANGED <<now, txPc, tx, tick, mgr, sims, mainPc, hbPc, sent, CURRENT_PRICE_PER_KWH, scales>>

\* ChargingProfileManager.clear_profile(connector_id, profile_id, purpose, stack_level)
ClearProfile(c, f) ==
    /\ Idle
    /\ LET r == clear_profile(profiles, c, f.profile_id, f.purpose, f.stack_level) IN
       /\ profiles' = r.profiles
       /\ last' = [op |-> "clear_profile",
                   args |-> [connector_id |-> c, filter |-> f],
                   result |-> [count |-> r.count],
                   before |-> profiles]
    /\ UNCHANGED <<now, txPc, tx, tick, mgr, sims, mainPc, hbPc, sent, CURRENT_PRICE_PER_KWH, scales>>

\* the receiver dispatches a SetChargingProfile request to its handler
OnSetChargingProfile(c, d) ==
    /\ Idle
    /\ LET r == on_set_charging_profile(profiles, c, d) IN
       /\ Fits(r.profiles)
       /\ profiles' = r.profiles
       /\ last' = [op |-> "SetChargingProfile",
                   args |-> [connector_id |-> c, cs_charging_profiles |-> d],
                   result |-> [status |-> r.status, raised |-> r.raised],
                   before |-> profiles]
    /\ UNCHANGED <<now, txPc, tx, tick, mgr, sims, mainPc, hbPc, sent, CURRENT_PRICE_PER_KWH, scales>>

\* the receiver dispatches a ClearChargingProfile request to its handler
OnClearChargingProfile(kwargs) ==
    /\ Idle
    /\ LET r == on_clear_charging_profile(profiles, kwargs) IN
       /\ profiles' = r.profiles
       /\ last' = [op |-> "ClearChargingProfile",
                   args |-> [kwargs |-> kwargs],
                   result |-> [status |-> r.status, count |-> r.count],
                   before |-> profiles]
    /\ UNCHANGED <<now, txPc, tx, tick, mgr, sims, mainPc, hbPc, sent, CURRENT_PRICE_PER_KWH, scales>>

\* ChargingProfileManager.get_current_limit(connector_id, transaction_id)
GetCurrentLimit(c, transaction_id) ==
    /\ Idle
    /\ last' = [op |-> "get_current_limit",
                args |-> [connector_id |-> c, transaction_id |-> transaction_id, now |-> now],
                result |-> [limit |-> get_current_limit(profiles, c, transaction_id, now)],
                before |-> profiles]
    /\ UNCHANGED <<profiles, now, txPc, tx, tick, mgr, sims, mainPc, hbPc, sent, CURRENT_PRICE_PER_KWH, scales>>

\* the call returns: its result (the handler's response frame) goes to the caller
Return ==
    /\ ~Idle
    /\ last' = NoCall
    /\ UNCHANGED <<profiles, now, txPc, tx, tick, mgr, sims, mainPc, hbPc, sent, CURRENT_PRICE_PER_KWH, scales>>

Next ==
    \/ ClockTick
    \/ Return
    \/ \E c \in Connectors, p \in ProfileObjects : AddProfile(c, p)
    \/ \E c \in Connectors, f \in Filters : ClearProfile(c, f)
    \/ \E c \in Connectors, d \in Payloads : OnSetChargingProfile(c, d)
    \/ \E kwargs \in ClearRequests : OnClearChargingProfile(kwargs)
    \/ \E c \in Connectors, t \in TransactionIds : GetCurrentLimit(c, t)

Spec == Init /\ [][Next]_vars

-----------------------------------------------------------------------------
(* Station profiles and the charging policy engine *)

\* a StationProfile, with the fields the transactions worker reads;
\* may_go_offline stands for offline_probability > 0
StationProfile(enable, offline, threshold, max_kwh, allow, step_min, step_max) ==
    [enable_transactions |-> enable,
     may_go_offline |-> offline,
     charge_if_price_below |-> threshold,
     max_energy_kwh |-> max_kwh,
     allow_peak |-> allow,
     peak_hours |-> <<8, 18>>,
     energy_step_min |-> step_min,
     energy_step_max |-> step_max,
     sample_interval_min |-> 10,
     sample_interval_max |-> 20]

ProfileNames == {"default", "busy", "idle", "no-transactions", "flaky"}

DEFAULT_PROFILES ==
    [n \in ProfileNames |->
        CASE n = "default" -> StationProfile(TRUE, FALSE, 25, 30, TRUE, 50, 150)
          [] n = "busy" -> StationProfile(TRUE, FALSE, 30, 40, TRUE, 80, 220)
          [] n = "idle" -> StationProfile(TRUE, FALSE, 18, 20, FALSE, 50, 150)
          [] n = "no-transactions" -> StationProfile(FALSE, FALSE, 100, 30, TRUE, 50, 150)
          [] n = "flaky" -> StationProfile(TRUE, TRUE, 20, 25, TRUE, 50, 150)]

\* watt-seconds in one Wh and in one kWh
WsPerWh == 3600
WsPerKwh == 1000 * WsPerWh

SecondsPerHour == 3600
HoursPerDay == 24

\* datetime.now(timezone.utc).hour
HourOf(t) == (t \div SecondsPerHour) % HoursPerDay

\* is_peak_hour(hour, peak_hours)
is_peak_hour(hour, peak_hours) == peak_hours[1] <= hour /\ hour < peak_hours[2]

\* a policy whose price rule also waits at a price equal to the threshold
evaluate_charging_policy_at_threshold(station_state, profile, env) ==
    IF station_state.energy_dispensed >= profile.max_energy_kwh * WsPerKwh
    THEN "pause"
    ELSE IF env.current_price >= profile.charge_if_price_below
    THEN "wait"
    ELSE IF /\ \E i \in DOMAIN profile.peak_hours : profile.peak_hours[i] = env.hour
            /\ ~profile.allow_peak_hours
    THEN "wait"
    ELSE "charge"

\* evaluate_charging_policy: the action decided.  energy_dispensed is in
\* watt-seconds; "hour in peak_hours" is membership in the tuple.
evaluate_charging_policy(station_state, profile, env) ==
    IF station_state.energy_dispensed >= profile.max_energy_kwh * WsPerKwh
    THEN "pause"
    ELSE IF env.current_price > profile.charge_if_price_below
    THEN "wait"
    ELSE IF /\ \E i \in DOMAIN profile.peak_hours : profile.peak_hours[i] = env.hour
            /\ ~profile.allow_peak_hours
    THEN "wait"
    ELSE "charge"

\* a Wh variant without the Wh check
evaluate_meter_value_decision_base_only(station_state, profile, env, current_energy, max_energy) ==
    IF evaluate_charging_policy(station_state, profile, env) = "charge"
    THEN "continue"
    ELSE "stop"

\* evaluate_meter_value_decision: "continue" or "stop"
evaluate_meter_value_decision(station_state, profile, env, current_energy, max_energy) ==
    IF current_energy >= max_energy
    THEN "stop"
    ELSE IF evaluate_charging_policy(station_state, profile, env) = "charge"
    THEN "continue"
    ELSE "stop"

\* the policy dict the worker builds from the station profile
PolicyOf(profile) ==
    [charge_if_price_below |-> profile.charge_if_price_below,
     max_energy_kwh |-> profile.max_energy_kwh,
     allow_peak_hours |-> profile.allow_peak,
     peak_hours |-> profile.peak_hours]

-----------------------------------------------------------------------------
(* The transactions worker of simulate_station (auto_transaction_loop) *)

\* the connector every session charges on
SessionConnector == 1

\* the name "self" inside auto_transaction_loop: simulate_station is a
\* module-level coroutine, and neither it nor the nested function binds it
SelfBound == FALSE

Min2(a, b) == IF a <= b THEN a ELSE b
Max2(a, b) == IF a >= b THEN a ELSE b

\* one iteration of the MeterValues loop, from the read of the profile limit
\* to the MeterValues request; energies are in watt-seconds.  finished tells
\* that the loop ends with this iteration.
meter_iteration(ps, locals, sample_interval_seconds, base_step, t) ==
    LET profile == DEFAULT_PROFILES[locals.profile]
        max_energy == profile.max_energy_kwh * WsPerKwh
    IN IF ~SelfBound
       THEN [outcome |-> "NameError", limit |-> None,
             self_energy |-> locals.self_energy, finished |-> FALSE]
       ELSE LET profile_limit_w ==
                    get_current_limit(ps, SessionConnector, locals.transaction_id, t)
                meter_decision ==
                    evaluate_meter_value_decision(
                        [energy_dispensed |-> locals.self_energy],
                        PolicyOf(profile),
                        [current_price |-> locals.current_price,
                         hour |-> locals.current_hour],
                        locals.self_energy, max_energy)
                energy_step ==
                    IF profile_limit_w # None
                    THEN Min2(base_step * WsPerWh,
                              profile_limit_w[1] * sample_interval_seconds)
                    ELSE IF is_peak_hour(locals.current_hour, profile.peak_hours)
                            /\ profile.allow_peak
                    THEN Max2(base_step \div 2, 10) * WsPerWh
                    ELSE base_step * WsPerWh
                total == Min2(locals.self_energy + energy_step, max_energy)
            IN IF profile_limit_w = None /\ meter_decision = "stop"
               THEN [outcome |-> "PolicyStop", limit |-> None,
                     self_energy |-> locals.self_energy, finished |-> TRUE]
               ELSE [outcome |-> "MeterValues", limit |-> profile_limit_w,
                     self_energy |-> total,
                     finished |-> \/ total >= max_energy
                                  \/ locals.iteration + 1 >= locals.max_iterations]

\* inputs of a session
Prices == {20, 30}
FakeTransactionIds == {1000, 9999}
IterationCounts == {3, 8}
SessionConnectors == {0, SessionConnector}
SessionPayloads == {CpMax22k, TxDef11k, TxProf5k, Stepped}
SessionClearRequests ==
    {[connector_id |-> 0], [id |-> 1], [connector_id |-> 1, stack_level |-> 0]}

\* simulate_station(station_id, csms_url, profile, current_price) has connected,
\* created its charge point and its three tasks
SessionInit ==
    /\ profiles = EmptyStore
    /\ now = 0
    /\ last = NoCall
    /\ txPc = "created"
    /\ \E n \in ProfileNames, price \in Prices :
          tx = [NoTransaction EXCEPT !.profile = n, !.current_price = price]
    /\ tick = NoTick
    /\ mgr = NoStations
    /\ sims = NoSims
    /\ mainPc = "none"
    /\ hbPc = "none"
    /\ sent = {}
    /\ scales = NoScales
    /\ CURRENT_PRICE_PER_KWH = InitialPrice

\* the session is running: its receiver dispatches inbound calls
SessionOpen == txPc \notin {"failed", "cancelled", "disconnected"}

\* the worker starts: it returns at once when the profile disables transactions
WorkerStarts ==
    /\ txPc = "created"
    /\ txPc' = IF DEFAULT_PROFILES[tx.profile].enable_transactions
               THEN "sleeping" ELSE "returned"
    /\ UNCHANGED <<profiles, now, last, tx, tick, mgr, sims, mainPc, hbPc, sent, CURRENT_PRICE_PER_KWH, scales>>

\* the idle sleep is over: the worker reads the hour and the price and asks
\* the policy engine.  sent collects the requests handed to cp.call.  Told not to charge, it waits 60 s and comes back here
\* after another idle sleep; on the flaky draw it goes offline (closes the
\* transport and returns); otherwise it sends Authorize.
BeginSession(go_offline) ==
    /\ txPc \in {"sleeping", "waiting"}
    /\ LET profile == DEFAULT_PROFILES[tx.profile]
           current_hour == HourOf(now)
           policy_decision ==
               evaluate_charging_policy(
                   [energy_dispensed |-> 0],
                   PolicyOf(profile),
                   [current_price |-> tx.current_price, hour |-> current_hour])
       IN /\ go_offline => profile.may_go_offline
          /\ tx' = [tx EXCEPT !.current_hour = current_hour]
          /\ txPc' = IF policy_decision # "charge" THEN "waiting"
                     ELSE IF go_offline THEN "returned"
                     ELSE "authorizing"
          /\ sent' = IF policy_decision = "charge" /\ ~go_offline
                     THEN sent \cup {"Authorize"} ELSE sent
    /\ UNCHANGED <<profiles, now, last, tick, mgr, sims, mainPc, hbPc, CURRENT_PRICE_PER_KWH, scales>>

\* Authorize is answered (whatever the status): StartTransaction is sent
AuthorizeConf ==
    /\ txPc = "authorizing"
    /\ txPc' = "starting"
    /\ sent' = sent \cup {"StartTransaction"}
    /\ UNCHANGED <<profiles, now, last, tx, tick, mgr, sims, mainPc, hbPc, CURRENT_PRICE_PER_KWH, scales>>

\* StartTransaction is answered: the transaction id is the one of the
\* response, or a fabricated one when the response has none
StartTransactionConf(response_id, fake_id, max_iterations) ==
    /\ txPc = "starting"
    /\ tx' = [tx EXCEPT !.transaction_id =
                            IF response_id = None THEN Some(fake_id) ELSE response_id,
                        !.self_energy = 0,
                        !.iteration = 0,
                        !.max_iterations = max_iterations]
    /\ txPc' = "metering"
    /\ UNCHANGED <<profiles, now, last, tick, mgr, sims, mainPc, hbPc, sent, CURRENT_PRICE_PER_KWH, scales>>

\* the sample interval has passed: one iteration of the MeterValues loop.
\* tick.stop is the StopTransaction request sent when the loop ends here.
\* An exception leaves the worker, asyncio.gather hands it to
\* simulate_station, which closes the transport and raises it again; the
\* iteration that ends the loop goes on to StopTransaction and to the next
\* idle sleep.
MeterTick(sample_interval_seconds, base_step) ==
    /\ txPc = "metering"
    /\ LET r == meter_iteration(profiles, tx, sample_interval_seconds, base_step, now) IN
       /\ tick' = [outcome |-> r.outcome,
                   time |-> now,
                   sample_interval_seconds |-> sample_interval_seconds,
                   transaction_id |-> tx.transaction_id,
                   limit |-> r.limit,
                   energy_before |-> tx.self_energy,
                   energy |-> r.self_energy,
                   stop |-> IF r.finished
                            THEN Some([transaction_id |-> Val(tx.transaction_id),
                                       meter_stop |-> r.self_energy])
                            ELSE None,
                   profiles |-> profiles]
       /\ tx' = IF r.outcome = "NameError" THEN tx
                ELSE [tx EXCEPT !.self_energy = r.self_energy, !.iteration = @ + 1]
       /\ txPc' = IF r.outcome = "NameError" THEN "failed"
                  ELSE IF r.finished THEN "sleeping"
                  ELSE "metering"
       /\ sent' = sent \cup (IF r.outcome = "MeterValues" THEN {"MeterValues"} ELSE {})
                       \cup (IF r.outcome # "NameError" /\ r.finished
                             THEN {"StopTransaction"} ELSE {})
    /\ UNCHANGED <<profiles, now, last, mgr, sims, mainPc, hbPc, CURRENT_PRICE_PER_KWH, scales>>

\* the session task is cancelled
Cancel ==
    /\ SessionOpen
    /\ txPc' = "cancelled"
    /\ UNCHANGED <<profiles, now, last, tx, tick, mgr, sims, mainPc, hbPc, sent, CURRENT_PRICE_PER_KWH, scales>>

\* the transport fails: the receiver's read raises, asyncio.gather hands the
\* exception to simulate_station, which closes the transport and raises it again
TransportFails ==
    /\ SessionOpen
    /\ txPc' = "disconnected"
    /\ UNCHANGED <<profiles, now, last, tx, tick, mgr, sims, mainPc, hbPc, sent, CURRENT_PRICE_PER_KWH, scales>>

\* some metering tick of the open transaction
SomeMeterTick ==
    \E p \in {DEFAULT_PROFILES[tx.profile]} :
        \E sample_interval_seconds \in {p.sample_interval_min, p.sample_interval_max},
           base_step \in {p.energy_step_min, p.energy_step_max} :
           MeterTick(sample_interval_seconds, base_step)

SessionNext ==
    \/ ClockTick
    \/ Return
    \/ WorkerStarts
    \/ \E go_offline \in BOOLEAN : BeginSession(go_offline)
    \/ AuthorizeConf
    \/ \E response_id \in TransactionIds, fake_id \in FakeTransactionIds,
          max_iterations \in IterationCounts :
          StartTransactionConf(response_id, fake_id, max_iterations)
    \/ SomeMeterTick
    \/ Cancel
    \/ TransportFails
    \/ \E c \in SessionConnectors, d \in SessionPayloads :
          SessionOpen /\ OnSetChargingProfile(c, d)
    \/ \E kwargs \in SessionClearRequests :
          SessionOpen /\ OnClearChargingProfile(kwargs)

SessionSpec == SessionInit /\ [][SessionNext]_vars

\* the event loop runs a worker whose sleep is over: a metering tick that can
\* be taken is taken
FairSessionSpec == SessionSpec /\ WF_vars(SomeMeterTick)

-----------------------------------------------------------------------------
(* Composite schedule queries over a store filled by SetChargingProfile *)

\* valid until second 0
Expiring6k == Payload(8, 2, "ChargePointMaxProfile", "Absolute", Schedule(0, <<Period(0, 6000)>>))
                 @@ [validTo |-> 0]
\* valid from the last second of the clock on
Future4k == Payload(9, 4, "TxDefaultProfile", "Absolute", Schedule(0, <<Period(0, 4000)>>))
               @@ [validFrom |-> MaxTime]

SchedulePayloads == {TxDef11k, TxProf5k, Stepped, Relative3k, Daily9k, Expiring6k, Future4k}

\* durations asked for: none, and up to one second past the clock's range
Durations == 0 .. MaxTime + 1

\* the start_time argument: absent, or an instant
StartTimes == {None} \cup {Some(t) : t \in TimePoints}

\* keyword arguments of GetCompositeSchedule requests
CompositeKwargs == {<<>>, [charging_rate_unit |-> "A"], [charging_rate_unit |-> "kW"]}

\* ChargingProfileManager.get_composite_schedule(connector_id, duration, unit, start_time)
GetCompositeSchedule(c, duration, unit, start_time) ==
    /\ Idle
    /\ LET t == IF IsNone(start_time) THEN now ELSE Val(start_time) IN
       last' = [op |-> "get_composite_schedule",
                args |-> [connector_id |-> c, duration |-> duration,
                          charging_rate_unit |-> unit, start_time |-> t],
                result |-> [schedule |-> get_composite_schedule(profiles, c, duration, unit, t)],
                before |-> profiles]
    /\ UNCHANGED <<profiles, now, txPc, tx, tick, mgr, sims, mainPc, hbPc, sent, CURRENT_PRICE_PER_KWH, scales>>

\* the receiver dispatches a GetCompositeSchedule request to its handler
OnGetCompositeSchedule(c, duration, kwargs) ==
    /\ Idle
    /\ last' = [op |-> "GetCompositeSchedule",
                args |-> [connector_id |-> c, duration |-> duration,
                          kwargs |-> kwargs, now |-> now],
                result |-> on_get_composite_schedule(profiles, c, duration, kwargs, now),
                before |-> profiles]
    /\ UNCHANGED <<profiles, now, txPc, tx, tick, mgr, sims, mainPc, hbPc, sent, CURRENT_PRICE_PER_KWH, scales>>

ScheduleNext ==
    \/ ClockTick
    \/ Return
    \/ \E c \in SessionConnectors, d \in SchedulePayloads : OnSetChargingProfile(c, d)
    \/ \E c \in SessionConnectors, t \in TransactionIds : GetCurrentLimit(c, t)
    \/ \E c \in SessionConnectors, duration \in Durations, start_time \in StartTimes :
          GetCompositeSchedule(c, duration, "W", start_time)
    \/ \E c \in SessionConnectors, duration \in Durations, kwargs \in CompositeKwargs :
          OnGetCompositeSchedule(c, duration, kwargs)

ScheduleSpec == Init /\ [][ScheduleNext]_vars

-----------------------------------------------------------------------------
(* Profiles with more than one period *)

\* two periods that start at the same second
EqualStarts == Payload(10, 5, "TxDefaultProfile", "Absolute",
                       Schedule(0, <<Period(0, 16000), Period(0, 6000)>>))
\* the second period starts before the first
Descending == Payload(11, 6, "TxDefaultProfile", "Absolute",
                      Schedule(0, <<Period(1, 16000), Period(0, 6000)>>))

\* the only period starts one second after the schedule
LateFirst == Payload(17, 9, "TxDefaultProfile", "Absolute",
                     Schedule(0, <<Period(1, 7000)>>))

PeriodPayloads == {Stepped, EqualStarts, Descending, LateFirst}

PeriodObjects == {parse_charging_profile(d).profile : d \in PeriodPayloads}

PeriodsNext ==
    \/ ClockTick
    \/ Return
    \/ \E c \in Connectors, p \in PeriodObjects : AddProfile(c, p)
    \/ \E c \in Connectors, d \in PeriodPayloads : OnSetChargingProfile(c, d)
    \/ \E c \in Connectors, t \in TransactionIds : GetCurrentLimit(c, t)

PeriodsSpec == Init /\ [][PeriodsNext]_vars

-----------------------------------------------------------------------------
(* Composite schedules over a window that is not covered throughout *)

\* covers second 0 only
GapHead == Payload(12, 7, "TxDefaultProfile", "Absolute",
                   Schedule(0, <<Period(0, 7000)>>) @@ [duration |-> 0])
\* covers the seconds from MaxTime on, with the limit of GapHead
GapTail == Payload(13, 8, "TxDefaultProfile", "Absolute",
                   Schedule(MaxTime, <<Period(0, 7000)>>))

GapPayloads == {GapHead, GapTail, Stepped}

GapNext ==
    \/ ClockTick
    \/ Return
    \/ \E c \in SessionConnectors, d \in GapPayloads : OnSetChargingProfile(c, d)
    \/ \E c \in SessionConnectors, duration \in Durations, start_time \in StartTimes :
          GetCompositeSchedule(c, duration, "W", start_time)
    \/ \E c \in SessionConnectors, duration \in Durations, kwargs \in CompositeKwargs :
          OnGetCompositeSchedule(c, duration, kwargs)

GapSpec == Init /\ [][GapNext]_vars

-----------------------------------------------------------------------------
(* Calls of the resolver on one profile *)

\* the day and the time of day of the instants the resolver is asked about
ResolverDays == {0, 1, 3, 7, 10}
ResolverTimesOfDay == {0, 1, 2, 3, 50, 100, 130, 131, SecondsPerDay - 1}
ResolverTimes == {d * SecondsPerDay + s : d \in ResolverDays, s \in ResolverTimesOfDay}

\* every day from 00:01:40 for 30 seconds, stepping down after 10
DailyWindow == Payload(14, 1, "TxDefaultProfile", "Recurring",
                       Schedule(SecondsPerDay + 100, <<Period(0, 9000), Period(10, 4000)>>)
                          @@ [duration |-> 30])
                  @@ [recurrencyKind |-> "Daily"]
\* every week on the weekday of day 3, from 00:01:40 for a day
WeeklyWindow == Payload(15, 2, "TxDefaultProfile", "Recurring",
                        Schedule(3 * SecondsPerDay + 100, <<Period(0, 8000), Period(30, 5000)>>)
                           @@ [duration |-> SecondsPerDay])
                   @@ [recurrencyKind |-> "Weekly"]
\* every week on the weekday of day 1, at the last second of the day
WeeklyLate == Payload(16, 3, "TxDefaultProfile", "Recurring",
                      Schedule(2 * SecondsPerDay - 1, <<Period(0, 7000)>>))
                 @@ [recurrencyKind |-> "Weekly"]

ResolverPayloads == {Stepped, TxDef11k, Daily9k, DailyWindow, WeeklyWindow, WeeklyLate}

ResolverObjects == {parse_charging_profile(d).profile : d \in ResolverPayloads}

\* _get_limit_at_time(profile, target_time)
GetLimitAtTime(p, t) ==
    /\ last' = [op |-> "get_limit_at_time",
                args |-> [profile |-> p, target_time |-> t],
                result |-> [limit |-> get_limit_at_time(p, t, None)],
                before |-> profiles]
    /\ UNCHANGED <<profiles, now, txPc, tx, tick, mgr, sims, mainPc, hbPc, sent, CURRENT_PRICE_PER_KWH, scales>>

\* _get_effective_schedule_start(profile, reference_time)
GetEffectiveScheduleStart(p, t) ==
    /\ last' = [op |-> "get_effective_schedule_start",
                args |-> [profile |-> p, reference_time |-> t],
                result |-> [start |-> get_effective_schedule_start(p, t, None)],
                before |-> profiles]
    /\ UNCHANGED <<profiles, now, txPc, tx, tick, mgr, sims, mainPc, hbPc, sent, CURRENT_PRICE_PER_KWH, scales>>

ResolverNext ==
    \/ \E p \in ResolverObjects, t \in ResolverTimes : GetLimitAtTime(p, t)
    \/ \E p \in ResolverObjects, t \in ResolverTimes : GetEffectiveScheduleStart(p, t)

ResolverSpec == Init /\ [][ResolverNext]_vars

-----------------------------------------------------------------------------
(* Calls of the policy engine *)

\* inputs of the policy: energies around the cap, prices around the
\* threshold, hours in and around the peak hours
PolicyCaps == {20, 30}
PolicyThreshold == 25
PolicyPrices == {PolicyThreshold - 1, PolicyThreshold, PolicyThreshold + 1}
PolicyHours == {17, 18, 20, 21}
PolicyPeakHours == {<<18, 19, 20>>, <<8, 18>>}
PolicyEnergies(cap) == {0, cap * WsPerKwh - 1, cap * WsPerKwh, cap * WsPerKwh + 1}

PolicyProfiles ==
    {[charge_if_price_below |-> PolicyThreshold, max_energy_kwh |-> cap,
      allow_peak_hours |-> allow, peak_hours |-> peak] :
        cap \in PolicyCaps, allow \in BOOLEAN, peak \in PolicyPeakHours}

PolicyEnvs == {[current_price |-> price, hour |-> hour] :
                  price \in PolicyPrices, hour \in PolicyHours}

\* evaluate_charging_policy(station_state, profile, env)
EvaluateChargingPolicy(station_state, profile, env) ==
    /\ last' = [op |-> "evaluate_charging_policy",
                args |-> [station_state |-> station_state, profile |-> profile, env |-> env],
                result |-> [action |-> evaluate_charging_policy(station_state, profile, env)],
                before |-> profiles]
    /\ UNCHANGED <<profiles, now, txPc, tx, tick, mgr, sims, mainPc, hbPc, sent, CURRENT_PRICE_PER_KWH, scales>>

\* evaluate_meter_value_decision(station_state, profile, env, current_energy_wh, max_energy_wh)
EvaluateMeterValueDecision(station_state, profile, env, current_energy, max_energy) ==
    /\ last' = [op |-> "evaluate_meter_value_decision",
                args |-> [station_state |-> station_state, profile |-> profile, env |-> env,
                          current_energy |-> current_energy, max_energy |-> max_energy],
                result |-> [action |-> evaluate_meter_value_decision(
                                           station_state, profile, env,
                                           current_energy, max_energy)],
                before |-> profiles]
    /\ UNCHANGED <<profiles, now, txPc, tx, tick, mgr, sims, mainPc, hbPc, sent, CURRENT_PRICE_PER_KWH, scales>>

PolicyNext ==
    \/ \E profile \in PolicyProfiles, env \in PolicyEnvs :
          \E energy \in PolicyEnergies(profile.max_energy_kwh) :
             EvaluateChargingPolicy([energy_dispensed |-> energy], profile, env)
    \/ \E profile \in PolicyProfiles, env \in PolicyEnvs :
          \E energy \in PolicyEnergies(profile.max_energy_kwh),
             current_energy \in PolicyEnergies(profile.max_energy_kwh) :
             EvaluateMeterValueDecision([energy_dispensed |-> energy], profile, env,
                                        current_energy, profile.max_energy_kwh * WsPerKwh)

PolicySpec == Init /\ [][PolicyNext]_vars

-----------------------------------------------------------------------------
(* The supervisor: StationManager *)

MaxUsageSum == 22       \* most energy update_energy_and_usage adds up for a station

\* the profile names a request may carry: two known ones and an unknown one
RequestedProfiles == {"default", "busy", "turbo"}
\* random.uniform(3, 22): the upper end of the range
UsageKw == {22}

\* task.done(): the task was cancelled, or safe_sim ended with the exception
\* simulate_station raised (simulate_station never returns)
TaskDone(task) == task \in {"cancelled", "failed"}

\* the station has a task that is not done
Running(m, station_id) ==
    /\ m.tasks[station_id] /= None
    /\ ~TaskDone(Val(m.tasks[station_id]))

\* a start without the check of the running task
start_station_unowned(m, user_id, station_id, profile_name) ==
    IF profile_name \notin ProfileNames
    THEN [mgr |-> m, raised |-> Some("Unknown profile")]
    ELSE [mgr |-> [m EXCEPT !.tasks[station_id] = Some("running"),
                            !.station_profiles[station_id] = Some(profile_name),
                            !.station_usage[station_id] = Some(0),
                            !.station_energy_kwh[station_id] = Some(0),
                            !.station_owners[station_id] = Some(user_id)],
          raised |-> None]

\* StationManager.start_station: the manager after the call and the
\* ValueError raised, if any
start_station(m, user_id, station_id, profile_name) ==
    IF Running(m, station_id)
    THEN IF m.station_owners[station_id] /= Some(user_id)
         THEN [mgr |-> m, raised |-> Some("Station ID already owned by another user")]
         ELSE [mgr |-> m, raised |-> None]
    ELSE IF profile_name \notin ProfileNames
    THEN [mgr |-> m, raised |-> Some("Unknown profile")]
    ELSE [mgr |-> [m EXCEPT !.tasks[station_id] = Some("running"),
                            !.station_profiles[station_id] = Some(profile_name),
                            !.station_usage[station_id] = Some(0),
                            !.station_energy_kwh[station_id] = Some(0),
                            !.station_owners[station_id] = Some(user_id)],
          raised |-> None]

\* task.cancel(): a task that is done stays done
Cancelled(task) == IF TaskDone(task) THEN task ELSE "cancelling"

\* the exception a failed task holds, named by its source
TaskException == "exception of simulate_station"

\* task.cancel() and "with suppress(CancelledError): await task".  A task
\* that is not done is cancelled and awaited (stopping); awaiting a cancelled
\* task raises CancelledError, which is suppressed, and the usage is reset;
\* awaiting a failed task raises the task's exception.
CancelAndAwait(m, station_id) ==
    LET task == Val(m.tasks[station_id]) IN
    IF task = "failed"
    THEN [mgr |-> m, raised |-> Some(TaskException)]
    ELSE IF task = "cancelled"
    THEN [mgr |-> [m EXCEPT !.station_usage[station_id] = Some(0)], raised |-> None]
    ELSE [mgr |-> [m EXCEPT !.tasks[station_id] = Some(Cancelled(task)),
                            !.stopping = @ \cup {station_id}],
          raised |-> None]

\* a stop without the check of the owner
stop_station_unowned(m, user_id, station_id) ==
    IF m.tasks[station_id] = None
    THEN [mgr |-> m, raised |-> None]
    ELSE CancelAndAwait(m, station_id)

\* StationManager.stop_station up to its await: the manager and the
\* exception raised, if any
stop_station(m, user_id, station_id) ==
    IF m.tasks[station_id] = None
    THEN [mgr |-> m, raised |-> None]
    ELSE IF m.station_owners[station_id] /= Some(user_id)
    THEN [mgr |-> m, raised |-> Some("Station not owned by user")]
    ELSE CancelAndAwait(m, station_id)

\* the frames simulate_station itself sends before it gathers its workers,
\* and the frames its heartbeat and transactions workers send
BootFrames == {"BootNotification", "StatusNotification"}
WorkerFrames == {"Heartbeat", "Authorize", "StartTransaction", "MeterValues", "StopTransaction"}

\* asyncio.create_task(safe_sim()): the coroutine awaits websockets.connect
NewSim == [pc |-> "connecting", ws |-> "none", workers |-> FALSE]

\* a cancellation that leaves the websocket as it is
cancel_session_keep_open(sim, pc_after) ==
    IF sim.pc = "gathered"
    THEN [pc |-> pc_after, ws |-> sim.ws, workers |-> FALSE]
    ELSE [sim EXCEPT !.pc = pc_after]

\* CancelledError delivered to simulate_station where it stands.  Before the
\* connect returns there is nothing to close; after it, the handler of
\* CancelledError closes the websocket.  Cancelling the await of
\* asyncio.gather cancels the three workers; a cancellation that arrives
\* while BootNotification or StatusNotification is awaited leaves them alive.
cancel_session(sim, pc_after) ==
    IF sim.pc = "booting"
    THEN [pc |-> pc_after, ws |-> "closed", workers |-> sim.workers]
    ELSE IF sim.pc = "gathered"
    THEN [pc |-> pc_after, ws |-> "closed", workers |-> FALSE]
    ELSE [sim EXCEPT !.pc = pc_after]

\* "except Exception" of simulate_station: the websocket is closed and the
\* exception is raised again; the workers that did not raise are left alone
fail_session(sim) == [pc |-> "ended", ws |-> "closed", workers |-> sim.workers]

\* the log buffer of a SimulatedChargePoint when simulate_station has
\* created its workers
StartupLog == <<"Station startup initiated">>

\* StationManager.get_station_logs
get_station_logs(m, user_id, station_id) ==
    IF m.station_owners[station_id] /= Some(user_id)
    THEN [logs |-> <<>>, raised |-> None]
    ELSE IF m.station_chargepoints[station_id] = None
    THEN [logs |-> <<>>, raised |-> None]
    ELSE [logs |-> Val(m.station_chargepoints[station_id]), raised |-> None]

\* the cancelled task has ended and "await task" returns: stop_station
\* resets the usage
stop_completes(m, sm, station_id) ==
    [mgr |-> [m EXCEPT !.tasks[station_id] = Some("cancelled"),
                       !.station_usage[station_id] = Some(0),
                       !.stopping = @ \ {station_id}],
     sims |-> [sm EXCEPT ![station_id] = cancel_session(@, "ended")]]

\* the station names in sorted order; f"PY-SIM-{i:04d}" is StationOrder[i]
StationOrder == <<"PY-SIM-0001", "PY-SIM-0002">>
StationName(i) == StationOrder[i]

\* target_count of a scale request
TargetCounts == 0 .. Len(StationOrder)

\* sorted(sid for sid, owner in self.station_owners.items() if owner == user_id)
OwnedIds(m, user_id) ==
    LET Owned(sid) == m.station_owners[sid] = Some(user_id) IN SelectSeq(StationOrder, Owned)

\* "await self.stop_station(user_id, sid)" inside scale_to, to its end
stop_and_wait(st, user_id, station_id) ==
    LET r == stop_station(st.mgr, user_id, station_id) IN
    IF r.raised /= None
    THEN [mgr |-> r.mgr, sims |-> st.sims, raised |-> r.raised]
    ELSE IF station_id \in r.mgr.stopping
    THEN LET done == stop_completes(r.mgr, st.sims, station_id) IN
         [mgr |-> done.mgr, sims |-> done.sims, raised |-> None]
    ELSE [mgr |-> r.mgr, sims |-> st.sims, raised |-> None]

\* "for sid in current_ids: await self.stop_station(user_id, sid)"
RECURSIVE StopAll(_, _, _, _)
StopAll(st, user_id, ids, i) ==
    IF i > Len(ids) \/ st.raised /= None THEN st
    ELSE StopAll(stop_and_wait(st, user_id, ids[i]), user_id, ids, i + 1)

\* "await self.start_station(user_id, sid, profile_name)" inside scale_to
start_one(st, user_id, station_id, profile_name) ==
    LET r == start_station(st.mgr, user_id, station_id, profile_name) IN
    [mgr |-> r.mgr,
     sims |-> IF r.raised = None /\ ~Running(st.mgr, station_id)
              THEN [st.sims EXCEPT ![station_id] = NewSim]
              ELSE st.sims,
     raised |-> r.raised]

\* "for i in range(1, target_count + 1): ..."
RECURSIVE StartAll(_, _, _, _, _)
StartAll(st, user_id, target_count, profile_name, i) ==
    IF i > target_count \/ st.raised /= None THEN st
    ELSE StartAll(start_one(st, user_id, StationName(i), profile_name),
                  user_id, target_count, profile_name, i + 1)

\* a scale that starts the stations without stopping any first
scale_to_without_stop(m, sm, user_id, target_count, profile_name) ==
    StartAll([mgr |-> m, sims |-> sm, raised |-> None],
             user_id, target_count, profile_name, 1)

\* StationManager.scale_to: the manager and the coroutines it leaves and
\* the exception raised, if any
scale_to(m, sm, user_id, target_count, profile_name) ==
    StartAll(StopAll([mgr |-> m, sims |-> sm, raised |-> None],
                     user_id, OwnedIds(m, user_id), 1),
             user_id, target_count, profile_name, 1)

\* POST /stations/start
StartStation(user_id, station_id, profile_name) ==
    /\ Idle
    /\ LET r == start_station(mgr, user_id, station_id, profile_name) IN
       /\ mgr' = r.mgr
       /\ sims' = IF r.raised = None /\ ~Running(mgr, station_id)
                  THEN [sims EXCEPT ![station_id] = NewSim]
                  ELSE sims
       /\ last' = [op |-> "start_station",
                   args |-> [user_id |-> user_id, station_id |-> station_id,
                             profile_name |-> profile_name],
                   result |-> [raised |-> r.raised],
                   before |-> mgr]
    /\ UNCHANGED <<profiles, now, txPc, tx, tick, mainPc, hbPc, sent, CURRENT_PRICE_PER_KWH, scales>>

\* POST /stations/stop
StopStation(user_id, station_id) ==
    /\ Idle
    /\ LET r == stop_station(mgr, user_id, station_id) IN
       /\ mgr' = r.mgr
       /\ last' = [op |-> "stop_station",
                   args |-> [user_id |-> user_id, station_id |-> station_id],
                   result |-> [raised |-> r.raised],
                   before |-> mgr]
    /\ UNCHANGED <<profiles, now, txPc, tx, tick, sims, mainPc, hbPc, sent, CURRENT_PRICE_PER_KWH, scales>>

\* the cancelled task ends and stop_station resumes after its await
StopCompletes(station_id) ==
    /\ Idle
    /\ station_id \in mgr.stopping
    /\ LET r == stop_completes(mgr, sims, station_id) IN
       /\ mgr' = r.mgr
       /\ sims' = r.sims
    /\ UNCHANGED <<profiles, now, last, txPc, tx, tick, mainPc, hbPc, sent, CURRENT_PRICE_PER_KWH, scales>>

\* POST /stations/scale
ScaleTo(user_id, target_count, profile_name) ==
    /\ Idle
    /\ LET r == scale_to(mgr, sims, user_id, target_count, profile_name) IN
       /\ mgr' = r.mgr
       /\ sims' = r.sims
       /\ last' = [op |-> "scale_to",
                   args |-> [user_id |-> user_id, target_count |-> target_count,
                             profile_name |-> profile_name],
                   result |-> [raised |-> r.raised],
                   before |-> mgr]
    /\ UNCHANGED <<profiles, now, txPc, tx, tick, mainPc, hbPc, sent, CURRENT_PRICE_PER_KWH, scales>>

\* GET /stations/{station_id}/logs
GetStationLogs(user_id, station_id) ==
    /\ Idle
    /\ LET r == get_station_logs(mgr, user_id, station_id) IN
       last' = [op |-> "get_station_logs",
                args |-> [user_id |-> user_id, station_id |-> station_id],
                result |-> r,
                before |-> mgr]
    /\ UNCHANGED <<profiles, now, txPc, tx, tick, mgr, sims, mainPc, hbPc, sent, CURRENT_PRICE_PER_KWH, scales>>

\* websockets.connect returns: the chargepoint is registered, the workers
\* are created and the startup is logged
Connected(station_id) ==
    /\ Idle
    /\ mgr.tasks[station_id] = Some("running")
    /\ sims[station_id].pc = "connecting"
    /\ sims' = [sims EXCEPT ![station_id] = [pc |-> "booting", ws |-> "open", workers |-> TRUE]]
    /\ mgr' = [mgr EXCEPT !.station_chargepoints[station_id] = Some(StartupLog)]
    /\ UNCHANGED <<profiles, now, last, txPc, tx, tick, mainPc, hbPc, sent, CURRENT_PRICE_PER_KWH, scales>>

\* websockets.connect raises a connection error: safe_sim catches
\* asyncio.TimeoutError only, so the task ends with the exception
ConnectFails(station_id) ==
    /\ Idle
    /\ mgr.tasks[station_id] = Some("running")
    /\ sims[station_id].pc = "connecting"
    /\ sims' = [sims EXCEPT ![station_id].pc = "ended"]
    /\ mgr' = [mgr EXCEPT !.tasks[station_id] = Some("failed")]
    /\ UNCHANGED <<profiles, now, last, txPc, tx, tick, mainPc, hbPc, sent, CURRENT_PRICE_PER_KWH, scales>>

\* BootNotification and StatusNotification are answered: simulate_station
\* awaits asyncio.gather
BootDone(station_id) ==
    /\ Idle
    /\ mgr.tasks[station_id] = Some("running")
    /\ sims[station_id].pc = "booting"
    /\ sims' = [sims EXCEPT ![station_id].pc = "gathered"]
    /\ UNCHANGED <<profiles, now, last, txPc, tx, tick, mgr, mainPc, hbPc, sent, CURRENT_PRICE_PER_KWH, scales>>

\* asyncio.wait_for(simulate_station(...), timeout=2.0) expires: the
\* coroutine is cancelled where it stands and safe_sim falls into its
\* "while True: await asyncio.sleep(1)"
Timeout(station_id) ==
    /\ Idle
    /\ mgr.tasks[station_id] = Some("running")
    /\ sims[station_id].pc \in {"connecting", "booting", "gathered"}
    /\ sims' = [sims EXCEPT ![station_id] = cancel_session(@, "keepalive")]
    /\ UNCHANGED <<profiles, now, last, txPc, tx, tick, mgr, mainPc, hbPc, sent, CURRENT_PRICE_PER_KWH, scales>>

\* safe_sim ends: simulate_station raised within the timeout
TaskEnds(station_id) ==
    /\ Idle
    /\ mgr.tasks[station_id] = Some("running")
    /\ sims[station_id].pc \in {"booting", "gathered"}
    /\ sims' = [sims EXCEPT ![station_id] = fail_session(@)]
    /\ mgr' = [mgr EXCEPT !.tasks[station_id] = Some("failed")]
    /\ UNCHANGED <<profiles, now, last, txPc, tx, tick, mainPc, hbPc, sent, CURRENT_PRICE_PER_KWH, scales>>

\* cp.call(...): a frame leaves on the websocket of the station
SendFrame(station_id, frame) ==
    /\ Idle
    /\ sims[station_id].ws = "open"
    /\ \/ frame \in BootFrames /\ sims[station_id].pc = "booting"
       \/ frame \in WorkerFrames /\ sims[station_id].workers
    /\ last' = [op |-> "send", args |-> [station_id |-> station_id, frame |-> frame],
                result |-> <<>>, before |-> mgr]
    /\ UNCHANGED <<profiles, now, txPc, tx, tick, mgr, sims, mainPc, hbPc, sent, CURRENT_PRICE_PER_KWH, scales>>

\* one round of update_energy_and_usage: every station with a task that is
\* not done gets a usage and its energy grows
UpdateEnergyAndUsage(kw) ==
    /\ Idle
    /\ \E station_id \in StationIds : Running(mgr, station_id)
    /\ \A station_id \in StationIds :
          Running(mgr, station_id)
              => Val(mgr.station_energy_kwh[station_id]) + kw[station_id] <= MaxUsageSum
    /\ mgr' = [mgr EXCEPT
                  !.station_usage = [sid \in StationIds |->
                      IF Running(mgr, sid) THEN Some(kw[sid]) ELSE @[sid]],
                  !.station_energy_kwh = [sid \in StationIds |->
                      IF Running(mgr, sid) THEN Some(Val(@[sid]) + kw[sid]) ELSE @[sid]]]
    /\ UNCHANGED <<profiles, now, last, txPc, tx, tick, sims, mainPc, hbPc, sent, CURRENT_PRICE_PER_KWH, scales>>

ManagerNext ==
    \/ \E user_id \in Users, station_id \in StationIds, profile_name \in RequestedProfiles :
          StartStation(user_id, station_id, profile_name)
    \/ \E user_id \in Users, station_id \in StationIds : StopStation(user_id, station_id)
    \/ \E station_id \in StationIds : StopCompletes(station_id)
    \/ \E user_id \in Users, target_count \in TargetCounts, profile_name \in RequestedProfiles :
          ScaleTo(user_id, target_count, profile_name)
    \/ \E user_id \in Users, station_id \in StationIds : GetStationLogs(user_id, station_id)
    \/ \E station_id \in StationIds : Connected(station_id)
    \/ \E station_id \in StationIds : ConnectFails(station_id)
    \/ \E station_id \in StationIds : BootDone(station_id)
    \/ \E station_id \in StationIds : Timeout(station_id)
    \/ \E station_id \in StationIds : TaskEnds(station_id)
    \/ \E station_id \in StationIds, frame \in BootFrames \cup WorkerFrames :
          SendFrame(station_id, frame)
    \/ \E kw \in [StationIds -> UsageKw] : UpdateEnergyAndUsage(kw)
    \/ Return

ManagerSpec == Init /\ [][ManagerNext]_vars

-----------------------------------------------------------------------------
(* One session from the creation of its tasks: simulate_station sends
   BootNotification and StatusNotification itself while its heartbeat and
   transactions workers, created before, run beside it.  A sleep ends when
   its timer says so, an answer comes when the central system sends it: the
   order of the two is not decided by the code. *)

\* simulate_station has connected and created recv_task, hb_task and tx_task;
\* none of them has run yet
LifecycleInit ==
    /\ profiles = EmptyStore
    /\ now = 0
    /\ last = NoCall
    /\ txPc = "created"
    /\ \E n \in ProfileNames, price \in Prices :
          tx = [NoTransaction EXCEPT !.profile = n, !.current_price = price]
    /\ tick = NoTick
    /\ mgr = NoStations
    /\ sims = NoSims
    /\ mainPc = "created"
    /\ hbPc = "created"
    /\ sent = {}
    /\ scales = NoScales
    /\ CURRENT_PRICE_PER_KWH = InitialPrice

\* the websocket is open and simulate_station has not left its try block
SessionAlive == mainPc \in {"boot", "status", "gather"}

\* send_boot_notification: cp.call(BootNotification); the tasks created
\* before get to run when this call suspends
SendBootNotification ==
    /\ mainPc = "created"
    /\ mainPc' = "boot"
    /\ sent' = sent \cup {"BootNotification"}
    /\ UNCHANGED <<profiles, now, last, txPc, tx, tick, mgr, sims, hbPc, CURRENT_PRICE_PER_KWH, scales>>

\* BootNotification is answered (accepted or not): StatusNotification is sent
BootNotificationConf ==
    /\ mainPc = "boot"
    /\ mainPc' = "status"
    /\ sent' = sent \cup {"StatusNotification"}
    /\ UNCHANGED <<profiles, now, last, txPc, tx, tick, mgr, sims, hbPc, CURRENT_PRICE_PER_KWH, scales>>

\* StatusNotification is answered: simulate_station awaits asyncio.gather
StatusNotificationConf ==
    /\ mainPc = "status"
    /\ mainPc' = "gather"
    /\ UNCHANGED <<profiles, now, last, txPc, tx, tick, mgr, sims, hbPc, sent, CURRENT_PRICE_PER_KWH, scales>>

\* send_heartbeat_loop runs up to its sleep
HeartbeatStarts ==
    /\ SessionAlive
    /\ hbPc = "created"
    /\ hbPc' = "sleeping"
    /\ UNCHANGED <<profiles, now, last, txPc, tx, tick, mgr, sims, mainPc, sent, CURRENT_PRICE_PER_KWH, scales>>

\* heartbeat_interval has passed: cp.call(Heartbeat)
SendHeartbeat ==
    /\ SessionAlive
    /\ hbPc = "sleeping"
    /\ hbPc' = "calling"
    /\ sent' = sent \cup {"Heartbeat"}
    /\ UNCHANGED <<profiles, now, last, txPc, tx, tick, mgr, sims, mainPc, CURRENT_PRICE_PER_KWH, scales>>

\* Heartbeat is answered: the loop sleeps again
HeartbeatConf ==
    /\ SessionAlive
    /\ hbPc = "calling"
    /\ hbPc' = "sleeping"
    /\ UNCHANGED <<profiles, now, last, txPc, tx, tick, mgr, sims, mainPc, sent, CURRENT_PRICE_PER_KWH, scales>>

\* a step of auto_transaction_loop
TransactionsStep ==
    \/ WorkerStarts
    \/ \E go_offline \in BOOLEAN : BeginSession(go_offline)
    \/ AuthorizeConf
    \/ \E response_id \in TransactionIds, fake_id \in FakeTransactionIds,
          max_iterations \in IterationCounts :
          StartTransactionConf(response_id, fake_id, max_iterations)
    \/ SomeMeterTick

\* asyncio.gather hands the exception of a worker to simulate_station, whose
\* "except Exception" closes the websocket and raises it again
GatherRaises ==
    /\ mainPc = "gather"
    /\ txPc = "failed"
    /\ mainPc' = "failed"
    /\ UNCHANGED <<profiles, now, last, txPc, tx, tick, mgr, sims, hbPc, sent, CURRENT_PRICE_PER_KWH, scales>>

\* the task of simulate_station is cancelled: "except asyncio.CancelledError"
\* closes the websocket, so nothing is sent after it
SessionCancelled ==
    /\ SessionAlive
    /\ mainPc' = "cancelled"
    /\ UNCHANGED <<profiles, now, last, txPc, tx, tick, mgr, sims, hbPc, sent, CURRENT_PRICE_PER_KWH, scales>>

LifecycleNext ==
    \/ SendBootNotification
    \/ BootNotificationConf
    \/ StatusNotificationConf
    \/ HeartbeatStarts
    \/ SendHeartbeat
    \/ HeartbeatConf
    \/ SessionAlive /\ TransactionsStep
    \/ GatherRaises
    \/ SessionCancelled
    \/ ClockTick

LifecycleSpec == LifecycleInit /\ [][LifecycleNext]_vars

-----------------------------------------------------------------------------
(* A station started by the supervisor at some hour and price: the hours go
   by and POST /pricing changes the price while its transactions worker runs *)

TariffPrices == {15, 20, 30}
TariffHours == {7, 8, 9, 17, 18, 19}

\* safe_sim calls simulate_station(..., current_price=CURRENT_PRICE_PER_KWH):
\* the parameter gets the value the global has at that moment
TariffInit ==
    /\ profiles = EmptyStore
    /\ \E h \in TariffHours : now = h * SecondsPerHour
    /\ last = NoCall
    /\ txPc = "created"
    /\ CURRENT_PRICE_PER_KWH \in TariffPrices
    /\ \E n \in ProfileNames :
          tx = [NoTransaction EXCEPT !.profile = n,
                                     !.current_price = CURRENT_PRICE_PER_KWH]
    /\ tick = NoTick
    /\ mgr = NoStations
    /\ sims = NoSims
    /\ mainPc = "none"
    /\ hbPc = "none"
    /\ sent = {}
    /\ scales = NoScales

\* the next hour begins
HourPasses ==
    /\ HourOf(now) + 1 \in TariffHours
    /\ now' = now + SecondsPerHour
    /\ UNCHANGED <<profiles, last, txPc, tx, tick, mgr, sims, mainPc, hbPc, sent, CURRENT_PRICE_PER_KWH, scales>>

\* POST /pricing: set_price rebinds the global
set_price(price) ==
    /\ price > 0
    /\ CURRENT_PRICE_PER_KWH' = price
    /\ UNCHANGED <<profiles, now, last, txPc, tx, tick, mgr, sims, mainPc, hbPc, sent, scales>>

TariffNext ==
    \/ HourPasses
    \/ \E price \in TariffPrices : set_price(price)
    \/ WorkerStarts
    \/ \E go_offline \in BOOLEAN : BeginSession(go_offline)
    \/ AuthorizeConf
    \/ \E response_id \in TransactionIds, fake_id \in FakeTransactionIds,
          max_iterations \in IterationCounts :
          StartTransactionConf(response_id, fake_id, max_iterations)
    \/ SomeMeterTick
    \/ Cancel

TariffSpec == TariffInit /\ [][TariffNext]_vars

-----------------------------------------------------------------------------
(* scale_to step by step.  A call runs without interruption up to an
   "await task" on a task that is not done (inside stop_station); awaiting
   start_station, which has no await of its own, never suspends.  When a
   cancelled task ends, the calls that await it resume one after the other
   in the order in which they began to wait. *)

ScaleProfiles == {"default", "busy"}

\* "for sid in current_ids: await self.stop_station(user_id, sid)" from the
\* i-th station on: wait is the index of the station whose task the call
\* awaits, 0 when the loop has ended
RECURSIVE StopFrom(_, _, _, _)
StopFrom(st, user_id, current_ids, i) ==
    IF i > Len(current_ids)
    THEN [mgr |-> st.mgr, sims |-> st.sims, raised |-> None, wait |-> 0]
    ELSE LET r == stop_station(st.mgr, user_id, current_ids[i]) IN
         IF r.raised /= None
         THEN [mgr |-> r.mgr, sims |-> st.sims, raised |-> r.raised, wait |-> 0]
         ELSE IF current_ids[i] \in r.mgr.stopping
         THEN [mgr |-> r.mgr, sims |-> st.sims, raised |-> None, wait |-> i]
         ELSE StopFrom([mgr |-> r.mgr, sims |-> st.sims], user_id, current_ids, i + 1)

\* scale_to from the i-th stop to its next suspension or to its end
scale_to_from(st, call, i) ==
    LET stopped == StopFrom(st, call.user_id, call.current_ids, i) IN
    IF stopped.raised /= None \/ stopped.wait > 0
    THEN stopped
    ELSE LET started == StartAll([mgr |-> stopped.mgr, sims |-> stopped.sims, raised |-> None],
                                 call.user_id, call.target_count, call.profile_name, 1)
         IN [mgr |-> started.mgr, sims |-> started.sims,
             raised |-> started.raised, wait |-> 0]

\* the scales after call k has run up to the result r
Suspended(sc, k, call, r) ==
    LET at == [call EXCEPT !.pc = IF r.wait > 0 THEN "awaiting" ELSE "returned",
                           !.i = r.wait,
                           !.raised = r.raised]
    IN [sc EXCEPT !.calls[k] = at,
                  !.waiters = IF r.wait > 0
                              THEN [@ EXCEPT ![call.current_ids[r.wait]] = Append(@, k)]
                              ELSE @]

\* POST /stations/scale arrives while no call or one call of the same user
\* is in flight
ScaleBegins(k, user_id, target_count, profile_name) ==
    /\ Idle
    /\ scales.ready = <<>>
    /\ scales.calls[k].pc = "idle"
    /\ \A j \in ScaleCalls \ {k} :
          \/ scales.calls[j].pc = "idle"
          \/ scales.calls[j].pc = "awaiting" /\ scales.calls[j].user_id = user_id
    /\ LET call == [NoScale EXCEPT !.user_id = user_id,
                                   !.target_count = target_count,
                                   !.profile_name = profile_name,
                                   !.current_ids = OwnedIds(mgr, user_id)]
           r == scale_to_from([mgr |-> mgr, sims |-> sims], call, 1)
           begun == [scales EXCEPT !.before = IF @ = None
                                              THEN Some([mgr |-> mgr, sims |-> sims])
                                              ELSE @]
       IN /\ mgr' = r.mgr
          /\ sims' = r.sims
          /\ scales' = Suspended(begun, k, call, r)
    /\ UNCHANGED <<profiles, now, last, txPc, tx, tick, mainPc, hbPc, sent, CURRENT_PRICE_PER_KWH>>

\* a cancelled task ends: the calls that await it are ready to resume
CancelledTaskEnds(station_id) ==
    /\ Idle
    /\ scales.ready = <<>>
    /\ station_id \in mgr.stopping
    /\ LET r == stop_completes(mgr, sims, station_id) IN
       /\ mgr' = r.mgr
       /\ sims' = r.sims
    /\ scales' = [scales EXCEPT !.ready = scales.waiters[station_id],
                                !.waiters[station_id] = <<>>]
    /\ UNCHANGED <<profiles, now, last, txPc, tx, tick, mainPc, hbPc, sent, CURRENT_PRICE_PER_KWH>>

\* the first ready call resumes after its "await task": stop_station resets
\* the usage and scale_to goes on
ScaleResumes ==
    /\ scales.ready /= <<>>
    /\ LET k == Head(scales.ready)
           call == scales.calls[k]
           reset == [mgr EXCEPT !.station_usage[call.current_ids[call.i]] = Some(0)]
           r == scale_to_from([mgr |-> reset, sims |-> sims], call, call.i + 1)
       IN /\ mgr' = r.mgr
          /\ sims' = r.sims
          /\ scales' = Suspended([scales EXCEPT !.ready = Tail(@)], k, call, r)
    /\ UNCHANGED <<profiles, now, last, txPc, tx, tick, mainPc, hbPc, sent, CURRENT_PRICE_PER_KWH>>

\* every call has answered: the next requests find no call in flight
ScalesAnswered ==
    /\ \A k \in ScaleCalls : scales.calls[k].pc \in {"idle", "returned"}
    /\ \E k \in ScaleCalls : scales.calls[k].pc = "returned"
    /\ scales' = NoScales
    /\ UNCHANGED <<profiles, now, last, txPc, tx, tick, mgr, sims, mainPc, hbPc, sent, CURRENT_PRICE_PER_KWH>>

ScaleNext ==
    \/ \E k \in ScaleCalls, user_id \in Users, target_count \in TargetCounts,
          profile_name \in ScaleProfiles :
          ScaleBegins(k, user_id, target_count, profile_name)
    \/ \E station_id \in StationIds : CancelledTaskEnds(station_id)
    \/ ScaleResumes
    \/ ScalesAnswered

ScaleSpec == Init /\ [][ScaleNext]_vars

-----------------------------------------------------------------------------
(* Vocabulary of the properties *)

\* the profiles of a list, as a set
Range(list) == {list[i] : i \in 1 .. Len(list)}

\* the (purpose, stackLevel) pair of a profile
Slot(q) == <<q.charging_profile_purpose, q.stack_level>>

\* every connector of the two stores holds the same list
SameStore(ps, qs) == DOMAIN ps = DOMAIN qs /\ \A c \in DOMAIN ps : ps[c] = qs[c]

\* list is sub with some elements left out, the order kept
IsSubSeq(sub, list) ==
    LET In(q) == q \in Range(sub) IN sub = SelectSeq(list, In)

\* the call that has just been made is op
Called(op) == last.op = op

-----------------------------------------------------------------------------
(* C2: after any sequence of add and clear operations (direct or through   *)
(* the handlers), no connector holds two distinct profiles with the same   *)
(* (purpose, stackLevel) pair.                                             *)

StoreUniqueness ==
    \A c \in DOMAIN profiles :
        \A i, j \in 1 .. Len(profiles[c]) :
            i # j => Slot(profiles[c][i]) # Slot(profiles[c][j])

\* an accepted add has left a connector with two profiles of one purpose
StoreUniquenessWitness ==
    /\ Called("add_profile") /\ last.result.ok
    /\ \E c \in DOMAIN profiles :
          /\ Len(profiles[c]) = 2
          /\ profiles[c][1].charging_profile_purpose = profiles[c][2].charging_profile_purpose

-----------------------------------------------------------------------------
(* C4: the SetChargingProfile handler never raises; it answers Accepted    *)
(* exactly when the payload parses, validates and is stored without a      *)
(* (purpose, stackLevel) conflict, and Rejected in every other case.       *)

\* every required field of the payload is there and every enum value is defined
PayloadWellFormed(d) ==
    /\ RequiredFields \subseteq DOMAIN d
    /\ {"chargingRateUnit", "chargingSchedulePeriod"} \subseteq DOMAIN d.chargingSchedule
    /\ \A i \in DOMAIN d.chargingSchedule.chargingSchedulePeriod :
          {"startPeriod", "limit"} \subseteq DOMAIN d.chargingSchedule.chargingSchedulePeriod[i]
    /\ d.chargingSchedule.chargingRateUnit \in ChargingRateUnit
    /\ d.chargingProfilePurpose \in ChargingProfilePurpose
    /\ d.chargingProfileKind \in ChargingProfileKind
    /\ "recurrencyKind" \in DOMAIN d => d.recurrencyKind \in RecurrencyKind

\* another profile of the list (another id) has the slot of p
ConflictsWithAnother(list, p) ==
    \E q \in Range(list) :
        q.charging_profile_id # p.charging_profile_id /\ Slot(q) = Slot(p)

SetProfileAnswer ==
    Called("SetChargingProfile") =>
        LET d == last.args.cs_charging_profiles
            c == last.args.connector_id
            p == parse_charging_profile(d).profile
        IN /\ ~last.result.raised
           /\ last.result.status \in {"Accepted", "Rejected"}
           /\ last.result.status = "Accepted" <=>
                 /\ PayloadWellFormed(d)
                 /\ validate_charging_profile(p)
                 /\ ~ConflictsWithAnother(get_profiles_for_connector(last.before, c), p)
           /\ last.result.status = "Accepted" => p \in Range(profiles[c])

-----------------------------------------------------------------------------
(* C5: add(connector, p), when the connector already holds a profile with  *)
(* p's id and no other profile of that connector has p's (purpose,         *)
(* stackLevel), succeeds and leaves exactly one profile with that id,      *)
(* equal to p - also when p keeps the purpose and stackLevel of the entry  *)
(* it replaces.                                                            *)

\* the connector holds a profile with p's id, and no other one has p's slot
IsReplacement(list, p) ==
    /\ \E q \in Range(list) : q.charging_profile_id = p.charging_profile_id
    /\ \A q \in Range(list) :
          q.charging_profile_id # p.charging_profile_id => Slot(q) # Slot(p)

ReplacementSucceeds ==
    (/\ Called("add_profile")
     /\ validate_charging_profile(last.args.profile)
     /\ last.args.connector_id \in DOMAIN last.before
     /\ IsReplacement(last.before[last.args.connector_id], last.args.profile))
    => /\ last.result.ok
       /\ LET list == profiles[last.args.connector_id]
              p == last.args.profile
          IN /\ p \in Range(list)
             /\ Cardinality({i \in 1 .. Len(list) :
                    list[i].charging_profile_id = p.charging_profile_id}) = 1

-----------------------------------------------------------------------------
(* C6: when add is rejected (validation failure or stack-level conflict),  *)
(* directly or through SetChargingProfile, the profile list of every       *)
(* connector is what it was before the call; a rejected replacement keeps  *)
(* the previously stored profile with that id.                             *)

AddRejected ==
    \/ Called("add_profile") /\ ~last.result.ok
    \/ Called("SetChargingProfile") /\ last.result.status = "Rejected"

RejectedAddChangesNothing ==
    AddRejected =>
        /\ \A c \in Connectors :
              get_profiles_for_connector(profiles, c)
                 = get_profiles_for_connector(last.before, c)
        /\ \A c \in DOMAIN last.before : c \in DOMAIN profiles

\* a replacement was rejected for a conflict with another stored profile,
\* and the profile stored under that id is still there
RejectedAddWitness ==
    /\ Called("add_profile") /\ ~last.result.ok
    /\ last.result.msg = "StackLevel conflict"
    /\ LET c == last.args.connector_id
           p == last.args.profile
       IN /\ c \in DOMAIN last.before
          /\ \E q \in Range(last.before[c]) :
                /\ q.charging_profile_id = p.charging_profile_id
                /\ q # p
                /\ q \in Range(profiles[c])
          /\ \E q \in Range(last.before[c]) :
                q.charging_profile_id # p.charging_profile_id /\ Slot(q) = Slot(p)

-----------------------------------------------------------------------------
(* C7: clear(connector, profileId?, purpose?, stackLevel?) removes from    *)
(* that connector exactly the profiles that match every supplied filter    *)
(* (all of them when none is supplied), returns the number removed and     *)
(* leaves every other connector unchanged; on a connector with no          *)
(* profiles it returns 0.                                                  *)

\* q matches every filter that is supplied
MatchesEverySupplied(q, f) ==
    /\ f.profile_id # None => q.charging_profile_id = f.profile_id[1]
    /\ f.purpose # None => q.charging_profile_purpose = f.purpose[1]
    /\ f.stack_level # None => q.stack_level = f.stack_level[1]

\* after is before with exactly the profiles matching f taken out
RemovedExactly(before, after, f) ==
    /\ IsSubSeq(after, before)
    /\ \A q \in Range(before) : q \in Range(after) <=> ~MatchesEverySupplied(q, f)

ClearRemovesExactlyMatches ==
    Called("clear_profile") =>
        LET c == last.args.connector_id
            f == last.args.filter
            old == get_profiles_for_connector(last.before, c)
            new == get_profiles_for_connector(profiles, c)
        IN /\ RemovedExactly(old, new, f)
           /\ last.result.count = Len(old) - Len(new)
           /\ last.result.count = Cardinality({q \in Range(old) : MatchesEverySupplied(q, f)})
           /\ old = <<>> => last.result.count = 0
           /\ \A d \in Connectors \ {c} :
                 get_profiles_for_connector(profiles, d)
                    = get_profiles_for_connector(last.before, d)

\* a clear with two filters removed one profile and kept another one of the
\* connector that matches only one of the two
ClearWitness ==
    /\ Called("clear_profile")
    /\ last.args.filter.purpose # None /\ last.args.filter.stack_level # None
    /\ last.result.count = 1
    /\ \E q \in Range(profiles[last.args.connector_id]) :
          q.charging_profile_purpose = last.args.filter.purpose[1]

-----------------------------------------------------------------------------
(* C8: the ClearChargingProfile handler with connectorId 0 or absent       *)
(* applies the filters to every connector's list, with a non-zero          *)
(* connectorId only to that connector, and answers Accepted exactly when   *)
(* at least one profile was removed and Unknown otherwise.                 *)

\* the filters a request supplies
RequestFilter(kwargs) ==
    Filter(Get(kwargs, "id"), Get(kwargs, "charging_profile_purpose"), Get(kwargs, "stack_level"))

\* the purpose of the request, when supplied, is one of the three purposes
PurposeWellFormed(kwargs) ==
    "charging_profile_purpose" \in DOMAIN kwargs
        => kwargs.charging_profile_purpose \in ChargingProfilePurpose

\* the request addresses every connector
AddressesAll(kwargs) == "connector_id" \notin DOMAIN kwargs \/ kwargs.connector_id = 0

ClearHandlerScopeAndStatus ==
    Called("ClearChargingProfile") =>
        LET kwargs == last.args.kwargs
            InScope(c) == AddressesAll(kwargs) \/ c = kwargs.connector_id
        IN /\ \A c \in Connectors :
                LET old == get_profiles_for_connector(last.before, c)
                    new == get_profiles_for_connector(profiles, c)
                IN IF InScope(c)
                   THEN /\ IsSubSeq(new, old)
                        /\ PurposeWellFormed(kwargs)
                              => RemovedExactly(old, new, RequestFilter(kwargs))
                   ELSE new = old
           /\ last.result.status \in {"Accepted", "Unknown"}
           /\ last.result.status = "Accepted" <=> Stored(profiles) < Stored(last.before)

\* a request for connector 0 took profiles out of two connectors, one of
\* them not connector 0, and was answered Accepted
ClearHandlerWitness ==
    /\ Called("ClearChargingProfile")
    /\ "connector_id" \in DOMAIN last.args.kwargs /\ last.args.kwargs.connector_id = 0
    /\ last.result.status = "Accepted"
    /\ Cardinality({c \in DOMAIN last.before : Len(profiles[c]) < Len(last.before[c])}) = 2

-----------------------------------------------------------------------------
(* Applicability of a profile to a query, as a set-based definition        *)

\* the latest instant not after t that is start plus a whole number of periods
LatestOccurrence(start, t, period) == t - ((t - start) % period)

\* origin of the schedule at time t; a Relative profile has none, because
\* the resolver is given no transaction start
ScheduleOrigin(p, t) ==
    CASE p.charging_profile_kind = "Absolute" -> p.charging_schedule.start_schedule
      [] p.charging_profile_kind = "Recurring" /\ p.charging_schedule.start_schedule = None -> None
      [] p.charging_profile_kind = "Recurring" /\ p.charging_schedule.start_schedule # None ->
            IF p.recurrency_kind = <<"Daily">>
            THEN <<LatestOccurrence(p.charging_schedule.start_schedule[1], t, SecondsPerDay)>>
            ELSE <<LatestOccurrence(p.charging_schedule.start_schedule[1], t,
                                    DaysPerWeek * SecondsPerDay)>>
      [] OTHER -> None

\* indexes of the periods that have started at time t
StartedPeriods(p, t) ==
    {i \in DOMAIN p.charging_schedule.charging_schedule_period :
        p.charging_schedule.charging_schedule_period[i].start_period
            <= t - ScheduleOrigin(p, t)[1]}

\* the profile is in its validity window at t
InValidityWindow(p, t) ==
    /\ p.valid_from # None => p.valid_from[1] <= t
    /\ p.valid_to # None => t <= p.valid_to[1]

\* a TxProfile belongs to the transaction of the query
OfTransaction(p, transaction_id) ==
    p.charging_profile_purpose = "TxProfile"
        => transaction_id # None /\ p.transaction_id = transaction_id

\* the schedule of the profile has started, has not run out, and has a period for t
ScheduleCovers(p, t) ==
    /\ ScheduleOrigin(p, t) # None
    /\ t - ScheduleOrigin(p, t)[1] >= 0
    /\ p.charging_schedule.duration # None
          => t - ScheduleOrigin(p, t)[1] <= p.charging_schedule.duration[1]
    /\ StartedPeriods(p, t) # {}

Applicable(p, transaction_id, t) ==
    InValidityWindow(p, t) /\ OfTransaction(p, transaction_id) /\ ScheduleCovers(p, t)

\* the limit of the last period that has started
Contribution(p, t) ==
    LET i == CHOOSE k \in StartedPeriods(p, t) : \A j \in StartedPeriods(p, t) : j <= k
    IN p.charging_schedule.charging_schedule_period[i].limit

\* the profiles of connector 0 and of connector c
Candidates(ps, c) ==
    Range(get_profiles_for_connector(ps, 0)) \cup Range(get_profiles_for_connector(ps, c))

\* the limits of the applicable candidates
ApplicableLimits(ps, c, transaction_id, t) ==
    {Contribution(p, t) : p \in {q \in Candidates(ps, c) : Applicable(q, transaction_id, t)}}

-----------------------------------------------------------------------------
(* C3: whenever currentLimit(connector, txId) returns a limit L, L is the  *)
(* minimum of the limits contributed at that moment by the applicable      *)
(* profiles of connector 0 and of the queried connector; it returns        *)
(* nothing exactly when no profile is applicable.                          *)

CurrentLimitIsMinimum ==
    Called("get_current_limit") =>
        LET limits == ApplicableLimits(last.before, last.args.connector_id,
                                       last.args.transaction_id, last.args.now)
        IN IF limits = {}
           THEN last.result.limit = None
           ELSE /\ last.result.limit # None
                /\ last.result.limit[1] \in limits
                /\ \A l \in limits : last.result.limit[1] <= l

\* the query found two applicable profiles, the lower limit on the queried
\* connector and the higher one on connector 0
CurrentLimitWitness ==
    /\ Called("get_current_limit")
    /\ last.args.connector_id # 0
    /\ \E p \in Range(get_profiles_for_connector(last.before, 0)) :
          /\ Applicable(p, last.args.transaction_id, last.args.now)
          /\ Contribution(p, last.args.now) > last.result.limit[1]
    /\ \E p \in Range(get_profiles_for_connector(last.before, last.args.connector_id)) :
          /\ Applicable(p, last.args.transaction_id, last.args.now)
          /\ Contribution(p, last.args.now) = last.result.limit[1]

-----------------------------------------------------------------------------
(* C9: a TxProfile contributes to currentLimit only when the query carries *)
(* a transaction id equal to the profile's transactionId; with no          *)
(* transaction id or another one it is skipped, so a store holding only    *)
(* that profile yields no limit.                                           *)

\* a TxProfile that is not of the transaction of the query
ForeignTxProfile(p, transaction_id) ==
    /\ p.charging_profile_purpose = "TxProfile"
    /\ (transaction_id = None \/ p.transaction_id # transaction_id)

\* the store without the TxProfiles of other transactions
WithoutForeignTxProfiles(ps, transaction_id) ==
    LET Keep(p) == ~ForeignTxProfile(p, transaction_id)
    IN [c \in DOMAIN ps |-> SelectSeq(ps[c], Keep)]

TxProfileOnlyForItsTransaction ==
    Called("get_current_limit") =>
        LET c == last.args.connector_id
            id == last.args.transaction_id
        IN /\ (\A p \in Candidates(last.before, c) : ForeignTxProfile(p, id))
                 => last.result.limit = None
           /\ last.result.limit
                 = get_current_limit(WithoutForeignTxProfiles(last.before, id),
                                     c, id, last.args.now)
           /\ last.result.limit # None =>
                 \E p \in Candidates(last.before, c) :
                    /\ ~ForeignTxProfile(p, id)
                    /\ Applicable(p, id, last.args.now)
                    /\ Contribution(p, last.args.now) = last.result.limit[1]

\* a query for another transaction found only a TxProfile that would apply
\* to its own transaction, and got no limit
TxProfileWitness ==
    /\ Called("get_current_limit")
    /\ last.args.transaction_id = <<TxB>>
    /\ Candidates(last.before, last.args.connector_id) # {}
    /\ \A p \in Candidates(last.before, last.args.connector_id) :
          /\ p.charging_profile_purpose = "TxProfile"
          /\ Applicable(p, p.transaction_id, last.args.now)
    /\ last.result.limit = None

-----------------------------------------------------------------------------
(* C10: profiles stored on connector 0 contribute to currentLimit of every *)
(* connector; profiles stored on a non-zero connector c contribute only to *)
(* queries for c, never to queries for another connector.                  *)

\* the store with only connector 0 and connector c
OnlyConnectors(ps, c) == [d \in DOMAIN ps \cap {0, c} |-> ps[d]]

ConnectorScope ==
    Called("get_current_limit") =>
        LET c == last.args.connector_id
            id == last.args.transaction_id
            t == last.args.now
        IN /\ \A p \in Range(get_profiles_for_connector(last.before, 0)) :
                 Applicable(p, id, t) =>
                    /\ last.result.limit # None
                    /\ last.result.limit[1] <= Contribution(p, t)
           /\ last.result.limit = get_current_limit(OnlyConnectors(last.before, c), c, id, t)
           /\ last.result.limit # None =>
                 \E p \in Candidates(last.before, c) :
                    Applicable(p, id, t) /\ Contribution(p, t) = last.result.limit[1]

\* a query for a non-zero connector got its limit from connector 0 while
\* another non-zero connector holds an applicable profile with a lower limit
ConnectorScopeWitness ==
    /\ Called("get_current_limit")
    /\ last.args.connector_id # 0
    /\ get_profiles_for_connector(last.before, last.args.connector_id) = <<>>
    /\ \E p \in Range(get_profiles_for_connector(last.before, 0)) :
          /\ Applicable(p, last.args.transaction_id, last.args.now)
          /\ last.result.limit = <<Contribution(p, last.args.now)>>
    /\ \E d \in DOMAIN last.before \ {0, last.args.connector_id} :
          \E p \in Range(last.before[d]) :
             /\ Applicable(p, last.args.transaction_id, last.args.now)
             /\ Contribution(p, last.args.now) < last.result.limit[1]

-----------------------------------------------------------------------------
(* C1: once the SetChargingProfile handler has answered Accepted for a     *)
(* profile that is applicable to connector 1 (stored on connector 0 or 1), *)
(* every later metering tick of the session's transaction taken while the  *)
(* profile is stored and applicable reports an energy that has grown by at *)
(* most limit_W x interval / 3600 Wh (limit_W x interval watt-seconds).    *)

\* the profiles on connector 0 and on the session's connector (each put
\* there by a SetChargingProfile answered Accepted) that were applicable to
\* the transaction when the last tick was taken
LimitingProfiles ==
    {q \in Candidates(tick.profiles, SessionConnector) :
        Applicable(q, tick.transaction_id, tick.time)}

MeterTickWithinLimit ==
    (tick.outcome # "none" /\ LimitingProfiles # {}) =>
        /\ tick.outcome = "MeterValues"
        /\ \A q \in LimitingProfiles :
              tick.energy - tick.energy_before
                  <= Contribution(q, tick.time) * tick.sample_interval_seconds

-----------------------------------------------------------------------------
(* C11: a profile whose validTo is earlier than the query time, or whose    *)
(* validFrom is later than it, contributes neither to the current limit    *)
(* nor to the composite schedule: both are what they would be without it;  *)
(* when no other profile is stored for the query, both return nothing and  *)
(* GetCompositeSchedule answers Rejected.                                  *)

\* the query time t is outside the validity window of p
OutOfWindow(p, t) ==
    \/ p.valid_to # None /\ p.valid_to[1] < t
    \/ p.valid_from # None /\ p.valid_from[1] > t

\* the store without the profiles that are out of their window at t
WithoutOutOfWindow(ps, t) ==
    LET InWindow(q) == ~OutOfWindow(q, t)
    IN [c \in DOMAIN ps |-> SelectSeq(ps[c], InWindow)]

\* every profile stored for the connector is out of its window at t
OnlyOutOfWindow(ps, c, t) == \A q \in Candidates(ps, c) : OutOfWindow(q, t)

OutOfWindowProfilesExcluded ==
    /\ Called("get_current_limit") =>
          LET c == last.args.connector_id
              t == last.args.now
          IN /\ last.result.limit =
                    get_current_limit(WithoutOutOfWindow(last.before, t), c,
                                      last.args.transaction_id, t)
             /\ OnlyOutOfWindow(last.before, c, t) => last.result.limit = None
    /\ Called("get_composite_schedule") =>
          LET c == last.args.connector_id
              t == last.args.start_time
          IN /\ last.result.schedule =
                    get_composite_schedule(WithoutOutOfWindow(last.before, t), c,
                                           last.args.duration,
                                           last.args.charging_rate_unit, t)
             /\ OnlyOutOfWindow(last.before, c, t) => last.result.schedule = None
    /\ Called("GetCompositeSchedule") =>
          LET c == last.args.connector_id
              t == last.args.now
          IN /\ last.result =
                    on_get_composite_schedule(WithoutOutOfWindow(last.before, t), c,
                                              last.args.duration, last.args.kwargs, t)
             /\ OnlyOutOfWindow(last.before, c, t) => last.result.status = "Rejected"

\* GetCompositeSchedule was answered Rejected although the only stored
\* profile has a schedule that covers the time asked for: its validTo has passed
OutOfWindowWitness ==
    /\ Called("GetCompositeSchedule")
    /\ last.args.duration > 0
    /\ last.result.status = "Rejected"
    /\ Stored(last.before) = 1
    /\ \E q \in Candidates(last.before, last.args.connector_id) :
          /\ q.valid_to # None /\ q.valid_to[1] < last.args.now
          /\ get_limit_at_time(q, last.args.now, None) # None

-----------------------------------------------------------------------------
(* C12: for every second offset s in [0, duration), the limit that the     *)
(* schedule returned by get_composite_schedule gives for s equals the      *)
(* current limit evaluated at start_time + s without transaction context   *)
(* and with Relative profiles skipped; s is uncovered exactly when that    *)
(* evaluation yields nothing, and no schedule is returned exactly when     *)
(* every sample is empty.                                                  *)

\* the store without its Relative profiles
WithoutRelative(ps) ==
    LET NotRelative(q) == q.charging_profile_kind # "Relative"
    IN [c \in DOMAIN ps |-> SelectSeq(ps[c], NotRelative)]

\* the current limit at start_time + s, no transaction given
SampledLimit(ps, c, start_time, s) ==
    get_current_limit(WithoutRelative(ps), c, None, start_time + s)

\* the limit a schedule gives for offset s: that of the last period that has
\* started; nothing without a schedule or before its first period
ScheduleLimitAt(schedule, s) ==
    IF schedule = None THEN None
    ELSE LET periods == schedule[1].charging_schedule_period
             started == {i \in DOMAIN periods : periods[i].start_period <= s}
         IN IF started = {} THEN None
            ELSE Some(periods[CHOOSE i \in started : \A j \in started : j <= i].limit)

CompositeEqualsSampledLimit ==
    Called("get_composite_schedule") =>
        LET offsets == 0 .. last.args.duration - 1
            Sample(s) == SampledLimit(last.before, last.args.connector_id,
                                      last.args.start_time, s)
        IN /\ \A s \in offsets : ScheduleLimitAt(last.result.schedule, s) = Sample(s)
           /\ last.result.schedule = None <=> \A s \in offsets : Sample(s) = None

-----------------------------------------------------------------------------
(* C13: a Relative profile stored for the connector contributes to the     *)
(* current limit of a query made during a transaction: the limit is at     *)
(* most what the profile's schedule gives when its origin is the start of  *)
(* the transaction.                                                        *)

\* a query of a transaction that started at some instant not after the query
\* is bounded by every Relative profile of its candidates that is in its
\* validity window
RelativeProfileContributes ==
    (Called("get_current_limit") /\ last.args.transaction_id # None) =>
        \A q \in Candidates(last.before, last.args.connector_id) :
            (/\ q.charging_profile_kind = "Relative"
             /\ InValidityWindow(q, last.args.now)
             /\ OfTransaction(q, last.args.transaction_id))
            => \E transaction_start \in 0 .. last.args.now :
                  LET due == get_limit_at_time(q, last.args.now, Some(transaction_start))
                  IN due # None =>
                        /\ last.result.limit # None
                        /\ last.result.limit[1] <= due[1]

-----------------------------------------------------------------------------
(* C14: within one transaction every metering tick that is not stopped by  *)
(* the policy sends a MeterValues whose value is not below the previous    *)
(* one and not above maxEnergyWh, and the tick that reaches maxEnergyWh is *)
(* the last tick of the transaction.                                       *)

\* max_energy_wh of the session, in watt-seconds
MaxEnergy == DEFAULT_PROFILES[tx.profile].max_energy_kwh * WsPerKwh

ReportedEnergyMonotone ==
    tick.outcome # "none" =>
        /\ tick.outcome \in {"MeterValues", "PolicyStop"}
        /\ tick.outcome = "MeterValues" =>
              /\ tick.energy_before <= tick.energy
              /\ tick.energy <= MaxEnergy
              /\ tick.energy = MaxEnergy => tick.stop # None

-----------------------------------------------------------------------------
(* C15: every StartTransaction that has been answered is eventually        *)
(* followed by a StopTransaction that carries the transaction id of the    *)
(* transaction (the one of the response, or a fabricated one) and a        *)
(* meterStop equal to the last energy reported, unless the session is      *)
(* cancelled or the transport fails first.                                 *)

\* the StopTransaction of the open transaction has been sent
StopSent ==
    /\ tick.outcome # "none"
    /\ tick.stop # None
    /\ tx.transaction_id # None
    /\ tick.stop[1].transaction_id = tx.transaction_id[1]
    /\ tick.stop[1].meter_stop = tx.self_energy

StopFollowsStart ==
    (txPc = "metering") ~> (StopSent \/ txPc \in {"cancelled", "disconnected"})

-----------------------------------------------------------------------------
(* C16: on a metering tick where the resolver returns a limit the policy   *)
(* engine is not consulted: whatever the price and the hour, the tick does *)
(* not end the transaction for the policy's sake and sends a MeterValues;  *)
(* the policy's Wh variant decides whether to stop only on the ticks where *)
(* the resolver returns nothing.                                           *)

\* what the policy's Wh variant says at the last tick
PolicyAtTick ==
    evaluate_meter_value_decision(
        [energy_dispensed |-> tick.energy_before],
        PolicyOf(DEFAULT_PROFILES[tx.profile]),
        [current_price |-> tx.current_price, hour |-> tx.current_hour],
        tick.energy_before, MaxEnergy)

LimitPrecedesPolicy ==
    tick.outcome # "none" =>
        IF LimitingProfiles # {}
        THEN tick.outcome = "MeterValues" /\ tick.limit # None
        ELSE tick.outcome = IF PolicyAtTick = "stop" THEN "PolicyStop" ELSE "MeterValues"

-----------------------------------------------------------------------------
(* C17: evaluate returns pause when the energy dispensed has reached
   maxEnergyKwh; otherwise wait when the price is strictly above the
   threshold (an equal price does not wait); otherwise wait when the hour is
   one of the peak hours and peak hours are not allowed; otherwise charge.
   The first rule that matches wins. *)
PolicyCall == last.args
AtEnergyCap ==
    PolicyCall.station_state.energy_dispensed
        >= PolicyCall.profile.max_energy_kwh * WsPerKwh
PriceAboveThreshold ==
    PolicyCall.env.current_price > PolicyCall.profile.charge_if_price_below
PeakHourBlocked ==
    /\ PolicyCall.env.hour \in Range(PolicyCall.profile.peak_hours)
    /\ ~PolicyCall.profile.allow_peak_hours

PolicyRuleOrder ==
    Called("evaluate_charging_policy") =>
        /\ AtEnergyCap => last.result.action = "pause"
        /\ ~AtEnergyCap /\ PriceAboveThreshold => last.result.action = "wait"
        /\ ~AtEnergyCap /\ ~PriceAboveThreshold /\ PeakHourBlocked
               => last.result.action = "wait"
        /\ ~AtEnergyCap /\ ~PriceAboveThreshold /\ ~PeakHourBlocked
               => last.result.action = "charge"

\* a price equal to the threshold outside the peak hours lets the station charge
PolicyRuleOrderWitness ==
    /\ Called("evaluate_charging_policy")
    /\ ~AtEnergyCap
    /\ PolicyCall.env.current_price = PolicyCall.profile.charge_if_price_below
    /\ ~PeakHourBlocked
    /\ last.result.action = "charge"

-----------------------------------------------------------------------------
(* C18: the Wh variant returns stop whenever currentEnergyWh has reached
   maxEnergyWh, whatever the price and the hour; otherwise it returns stop
   when the base policy returns pause or wait and continue when the base
   policy returns charge. *)
BasePolicyAction ==
    IF AtEnergyCap THEN "pause"
    ELSE IF PriceAboveThreshold \/ PeakHourBlocked THEN "wait"
    ELSE "charge"

MeterValueDecision ==
    Called("evaluate_meter_value_decision") =>
        /\ PolicyCall.current_energy >= PolicyCall.max_energy
               => last.result.action = "stop"
        /\ PolicyCall.current_energy < PolicyCall.max_energy
               => /\ BasePolicyAction \in {"pause", "wait"} => last.result.action = "stop"
                  /\ BasePolicyAction = "charge" => last.result.action = "continue"

\* the Wh cap is reached while the base policy would let the station charge
MeterValueDecisionWitness ==
    /\ Called("evaluate_meter_value_decision")
    /\ PolicyCall.current_energy >= PolicyCall.max_energy
    /\ BasePolicyAction = "charge"
    /\ last.result.action = "stop"

-----------------------------------------------------------------------------
(* C19: start(owner, stationId, profile) on a station that is running under
   a different owner fails and leaves the station's task, profile and owner
   as they were; on a station running under the same owner it succeeds
   without a second task and without any change of state. *)
StartOnRunning ==
    /\ Called("start_station")
    /\ Running(last.before, last.args.station_id)

StartedByOwner ==
    last.before.station_owners[last.args.station_id] = Some(last.args.user_id)

StartRespectsOwner ==
    StartOnRunning =>
        /\ mgr = last.before
        /\ IF StartedByOwner
           THEN last.result.raised = None
           ELSE last.result.raised = Some("Station ID already owned by another user")

\* a start by another user on a running station that has a usage, a
\* different profile and a different owner to lose
StartRespectsOwnerWitness ==
    /\ StartOnRunning
    /\ ~StartedByOwner
    /\ last.args.profile_name \in ProfileNames
    /\ last.before.station_profiles[last.args.station_id] /= Some(last.args.profile_name)
    /\ last.before.station_usage[last.args.station_id] /= Some(0)
    /\ last.result.raised /= None

-----------------------------------------------------------------------------
(* C20: stop(principal, stationId) by a principal who does not own an
   existing station fails with the ownership error; the station's task keeps
   running and the supervisor's state is unchanged. *)
StopByStranger ==
    /\ Called("stop_station")
    /\ last.before.tasks[last.args.station_id] /= None
    /\ last.before.station_owners[last.args.station_id] /= Some(last.args.user_id)

StopRespectsOwner ==
    StopByStranger =>
        /\ last.result.raised = Some("Station not owned by user")
        /\ mgr.tasks[last.args.station_id] = last.before.tasks[last.args.station_id]
        /\ mgr = last.before

\* a stop by another user on a station whose task runs and has a usage
StopRespectsOwnerWitness ==
    /\ StopByStranger
    /\ mgr.tasks[last.args.station_id] = Some("running")
    /\ mgr.station_usage[last.args.station_id] /= Some(0)
    /\ last.result.raised = Some("Station not owned by user")

-----------------------------------------------------------------------------
(* C21: stop is idempotent: stop(owner, stationId) on a station that is
   already stopped, or whose session task has already terminated by itself
   (cancelled or ended with an error), completes without raising and changes
   nothing. *)
StopOnTerminated ==
    /\ Called("stop_station")
    /\ last.before.tasks[last.args.station_id] /= None
    /\ TaskDone(Val(last.before.tasks[last.args.station_id]))
    /\ last.before.station_owners[last.args.station_id] = Some(last.args.user_id)

StopIsIdempotent ==
    StopOnTerminated =>
        /\ last.result.raised = None
        /\ mgr = last.before

-----------------------------------------------------------------------------
(* C22: after stop(owner, stationId) has returned, the cancelled session
   emits no further outbound OCPP frame (no Heartbeat, Authorize,
   StartTransaction, MeterValues or StopTransaction). *)
StoppedSessionIsSilent ==
    Called("send") => last.before.tasks[last.args.station_id] /= Some("cancelled")

\* the stop has returned for a session that was cancelled before it gathered
\* its workers: they are still alive, on a closed websocket
StoppedSessionWitness ==
    \E sid \in StationIds :
        /\ mgr.tasks[sid] = Some("cancelled")
        /\ sid \notin mgr.stopping
        /\ sims[sid].workers
        /\ sims[sid].ws = "closed"

-----------------------------------------------------------------------------
(* C24: the ~2 s bound applies to the transport connect only: a session whose
   transport connected within the bound keeps running its receiver,
   heartbeat and transactions workers after the bound has elapsed and is not
   cancelled or moved to the degraded keep-alive by that timer. *)
ConnectedSessionKeepsRunning ==
    [][\A sid \in StationIds :
          sims[sid].pc \in {"booting", "gathered"} => sims'[sid].pc /= "keepalive"]_vars

-----------------------------------------------------------------------------
(* C25: when the transport connect fails, whether by exceeding the bound or
   by an immediate connection error, the station's supervisor task does not
   terminate: it enters the degraded keep-alive and the station stays listed
   as running until it is stopped. *)
ConnectFailureKeepsAlive ==
    \A sid \in StationIds :
        (sims[sid].pc = "ended" /\ sims[sid].ws = "none")
            => mgr.tasks[sid] = Some("cancelled")

-----------------------------------------------------------------------------
(* C26: getLogs(principal, stationId) by a principal who is not the station's
   owner is rejected with a NotOwned error, and no log entry of the station
   is returned to that principal. *)
LogsAskedByStranger ==
    /\ Called("get_station_logs")
    /\ last.before.station_owners[last.args.station_id] /= None
    /\ last.before.station_owners[last.args.station_id] /= Some(last.args.user_id)

LogsRejectedForStranger ==
    LogsAskedByStranger =>
        /\ last.result.raised /= None
        /\ last.result.logs = <<>>

-----------------------------------------------------------------------------
(* C23: after scale(owner, N, profile) completes, when no PY-SIM name is in
   use by another owner, the owner's running stations are exactly PY-SIM-0001
   to PY-SIM-N, each running the given profile, and every station the owner
   ran before whose name is outside that range is stopped. *)
ScaleTargets == {StationName(i) : i \in 1 .. last.args.target_count}

ScaleCompleted ==
    /\ Called("scale_to")
    /\ last.result.raised = None
    /\ \A sid \in ScaleTargets :
          Running(last.before, sid)
              => last.before.station_owners[sid] = Some(last.args.user_id)

RunningOf(m, user_id) ==
    {sid \in StationIds : m.station_owners[sid] = Some(user_id) /\ Running(m, sid)}

-----------------------------------------------------------------------------
(* C27: validation rejects any profile whose periods are not strictly
   ascending by startPeriod, including a profile with two periods of equal
   startPeriod, so no such profile is ever stored by add or
   SetChargingProfile. *)
StrictlyAscending(periods) ==
    \A i \in 2 .. Len(periods) : periods[i - 1].start_period < periods[i].start_period

StoredPeriodsStrictlyAscending ==
    \A c \in DOMAIN profiles : \A i \in 1 .. Len(profiles[c]) :
        StrictlyAscending(profiles[c][i].charging_schedule.charging_schedule_period)

-----------------------------------------------------------------------------
(* C28: in every schedule returned by compositeSchedule, any two consecutive
   periods have different limits, including when the covered seconds are
   separated by a gap in which no profile applies. *)
AdjacentPeriodsDiffer ==
    (Called("get_composite_schedule") /\ last.result.schedule /= None) =>
        LET periods == Val(last.result.schedule).charging_schedule_period IN
        \A i \in 1 .. Len(periods) - 1 : periods[i].limit /= periods[i + 1].limit

-----------------------------------------------------------------------------
(* C29: a profile with effective schedule start S contributes at time t
   exactly when t - S >= 0 and (duration is absent or t - S <= duration), so
   it still applies at elapsed = duration and no longer at any later second;
   its contribution is the limit of the last period whose startPeriod is
   <= t - S.  Stated for schedules whose first period starts at 0. *)
AskedProfile == last.args.profile
AskedPeriods == AskedProfile.charging_schedule.charging_schedule_period
AskedStart ==
    get_effective_schedule_start(AskedProfile, last.args.target_time, None)
AskedElapsed == last.args.target_time - Val(AskedStart)

WithinDuration ==
    /\ AskedElapsed >= 0
    /\ \/ AskedProfile.charging_schedule.duration = None
       \/ AskedElapsed <= Val(AskedProfile.charging_schedule.duration)

\* the last period that has started at the elapsed time
LastStartedPeriod ==
    CHOOSE i \in DOMAIN AskedPeriods :
        /\ AskedPeriods[i].start_period <= AskedElapsed
        /\ \A j \in DOMAIN AskedPeriods :
              AskedPeriods[j].start_period <= AskedElapsed => j <= i

LimitWithinDuration ==
    (/\ Called("get_limit_at_time")
     /\ AskedStart /= None
     /\ AskedPeriods[1].start_period = 0) =>
        IF WithinDuration
        THEN last.result.limit = Some(AskedPeriods[LastStartedPeriod].limit)
        ELSE last.result.limit = None

\* the profile is asked at elapsed = duration, in its second period
LimitAtDurationWitness ==
    /\ Called("get_limit_at_time")
    /\ AskedStart /= None
    /\ AskedProfile.charging_schedule.duration = Some(AskedElapsed)
    /\ LastStartedPeriod = 2
    /\ last.result.limit = Some(AskedPeriods[2].limit)

-----------------------------------------------------------------------------
(* C30: for a Recurring profile the effective schedule start is the latest
   instant not after now that has startSchedule's time of day (Daily) or
   startSchedule's weekday and time of day (Weekly): when today's projection
   (this week's, on the target weekday) is later than now, the previous
   day's (previous week's) occurrence is used. *)
RecurringAsked ==
    /\ Called("get_effective_schedule_start")
    /\ last.args.profile.charging_profile_kind = "Recurring"
    /\ last.args.profile.charging_schedule.start_schedule /= None

RecurrencePeriod ==
    IF last.args.profile.recurrency_kind = Some("Daily")
    THEN SecondsPerDay
    ELSE DaysPerWeek * SecondsPerDay

RecurringStartIsLatestOccurrence ==
    RecurringAsked =>
        /\ last.result.start /= None
        /\ LET S == Val(last.result.start)
               start == Val(last.args.profile.charging_schedule.start_schedule)
               t == last.args.reference_time
           IN /\ S <= t
              /\ t - S < RecurrencePeriod
              /\ (S - start) % SecondsPerDay = 0
              /\ last.args.profile.recurrency_kind = Some("Weekly")
                    => Weekday(S) = Weekday(start)

\* a Weekly profile asked on its weekday before its time of day: the
\* occurrence of the week before is used
RecurringPreviousWeekWitness ==
    /\ RecurringAsked
    /\ last.args.profile.recurrency_kind = Some("Weekly")
    /\ Weekday(last.args.reference_time)
          = Weekday(Val(last.args.profile.charging_schedule.start_schedule))
    /\ last.args.reference_time - Val(last.result.start) > (DaysPerWeek - 1) * SecondsPerDay

-----------------------------------------------------------------------------
(* C31: every profile held in the store has a period with startPeriod 0, and
   at elapsed = 0 from its effective schedule start the resolver's
   contribution is that period's limit (never nothing). *)
ZeroPeriods(p) ==
    {k \in DOMAIN p.charging_schedule.charging_schedule_period :
        p.charging_schedule.charging_schedule_period[k].start_period = 0}

ContributesAtScheduleStart(p) ==
    get_effective_schedule_start(p, now, None) = Some(now)
        => \E k \in ZeroPeriods(p) :
              get_limit_at_time(p, now, None)
                  = Some(p.charging_schedule.charging_schedule_period[k].limit)

StoredProfilesStartAtZero ==
    \A c \in DOMAIN profiles : \A i \in 1 .. Len(profiles[c]) :
        /\ ZeroPeriods(profiles[c][i]) /= {}
        /\ ContributesAtScheduleStart(profiles[c][i])

-----------------------------------------------------------------------------
(* C32: in every session BootNotification is the first request sent, and
   StatusNotification is sent before the first Authorize or StartTransaction,
   however the heartbeat and transactions workers interleave with the boot
   sequence. *)
BootAndStatusComeFirst ==
    /\ sent /= {} => "BootNotification" \in sent
    /\ sent \cap {"Authorize", "StartTransaction"} /= {}
          => "StatusNotification" \in sent

-----------------------------------------------------------------------------
(* C33: for each charging session the transactions worker sends Authorize,
   then StartTransaction, then between 0 and 8 MeterValues, then
   StopTransaction, in that order; it sends no StartTransaction while its
   previous transaction has not been stopped, and the simulated offline step
   closes the transport only between sessions, never while a transaction is
   open. *)

\* the most MeterValues of one transaction: random.randint(3, 8)
MaxIterations == 8

\* StartTransaction was sent and StopTransaction was not
TransactionOpen == txPc \in {"starting", "metering"}

\* the worker moves to position pc in this step
Reaches(pc) == txPc' = pc /\ txPc # pc

SessionFramesInOrder ==
    [][/\ Reaches("authorizing") => txPc \in {"sleeping", "waiting"}
       /\ Reaches("starting") => txPc = "authorizing"
       /\ Reaches("metering") => txPc = "starting"
       /\ txPc' = "metering" => tx'.iteration < MaxIterations
       /\ Reaches("returned") => ~TransactionOpen
       /\ TransactionOpen /\ ~TransactionOpen'
             => \/ txPc' \in {"cancelled", "disconnected"}
                \/ /\ txPc' = "sleeping"
                   /\ tick'.stop # None
                   /\ "StopTransaction" \in sent'
                   /\ tick'.stop[1].transaction_id = tx.transaction_id[1]]_vars

-----------------------------------------------------------------------------
(* C34: every policy consultation of the transactions worker evaluates the
   electricity price and the hour in force at that moment, so a price change
   made in the supervisor after the station was started changes the
   station's next charge / wait decision. *)

\* the worker asks the policy engine before a session in this step
ConsultsPolicy ==
    /\ txPc \in {"sleeping", "waiting"}
    /\ txPc' \in {"waiting", "authorizing", "returned"}
    /\ UNCHANGED <<now, CURRENT_PRICE_PER_KWH>>

\* what the policy says for the profile of the session at a price and an hour
PolicyAt(price, hour) ==
    evaluate_charging_policy([energy_dispensed |-> 0],
                             PolicyOf(DEFAULT_PROFILES[tx.profile]),
                             [current_price |-> price, hour |-> hour])

PolicySeesPriceInForce ==
    [][ConsultsPolicy
         => (txPc' = "waiting"
               <=> PolicyAt(CURRENT_PRICE_PER_KWH, HourOf(now)) # "charge")]_vars

-----------------------------------------------------------------------------
(* C35: for a station profile with allow_peak false and peak_hours
   (start, end) the transactions worker sends no Authorize and starts no
   transaction at any hour h with start <= h < end, and the peak rule does
   not block it at the hours outside that window. *)
PeakWindowBlocksSessions ==
    [][ConsultsPolicy /\ ~DEFAULT_PROFILES[tx.profile].allow_peak
         => LET profile == DEFAULT_PROFILES[tx.profile]
                in_window == is_peak_hour(HourOf(now), profile.peak_hours)
            IN /\ in_window => txPc' = "waiting" /\ sent' = sent
               /\ ~in_window /\ tx.current_price <= profile.charge_if_price_below
                     => txPc' # "waiting"]_vars

-----------------------------------------------------------------------------
(* C36: the ClearChargingProfile handler removes a profile only if it
   matches every filter the request supplies (id, purpose, stackLevel); a
   request whose chargingProfilePurpose is not one of the three defined
   purposes matches no profile, removes nothing and answers Unknown. *)

\* profile p matches every filter that kwargs supplies
MatchesSupplied(p, kwargs) ==
    /\ "id" \in DOMAIN kwargs => p.charging_profile_id = kwargs.id
    /\ "charging_profile_purpose" \in DOMAIN kwargs
          => p.charging_profile_purpose = kwargs.charging_profile_purpose
    /\ "stack_level" \in DOMAIN kwargs => p.stack_level = kwargs.stack_level

ClearMatchesEveryFilter ==
    Called("ClearChargingProfile") =>
        LET kwargs == last.args.kwargs IN
        /\ \A c \in Connectors :
              \A p \in Range(get_profiles_for_connector(last.before, c)) :
                 p \notin Range(get_profiles_for_connector(profiles, c))
                    => MatchesSupplied(p, kwargs)
        /\ ~PurposeWellFormed(kwargs)
              => profiles = last.before /\ last.result.status = "Unknown"

-----------------------------------------------------------------------------
(* C37: when stop(owner, stationId) returns, the receiver, heartbeat and
   transactions workers of that session have all terminated, whatever point
   of the session lifecycle the cancellation arrived at (during the boot and
   status exchange, while idle, or in the middle of a transaction). *)
WorkersEndWithStop ==
    \A sid \in StationIds :
        mgr.tasks[sid] = Some("cancelled") /\ sid \notin mgr.stopping
            => ~sims[sid].workers

-----------------------------------------------------------------------------
(* C38: while a station's task is running its entry in the ownership map
   never changes; the owner of a station id changes only through a start
   issued by another principal when that station's task is no longer
   running, and stop leaves the ownership entry in place. *)
OwnershipChangesOnlyByStart ==
    [][\A sid \in StationIds :
          /\ Running(mgr, sid) => mgr'.station_owners[sid] = mgr.station_owners[sid]
          /\ mgr'.station_owners[sid] /= mgr.station_owners[sid]
                => /\ last'.op \in {"start_station", "scale_to"}
                   /\ mgr'.station_owners[sid] = Some(last'.args.user_id)
          /\ last'.op = "stop_station" \/ sid \in mgr.stopping
                => mgr'.station_owners[sid] = mgr.station_owners[sid]]_vars

\* a start has taken a station whose task had ended over from another owner
OwnershipTakenOverWitness ==
    /\ Called("start_station")
    /\ last.before.station_owners[last.args.station_id] /= None
    /\ last.before.station_owners[last.args.station_id] /= Some(last.args.user_id)
    /\ mgr.station_owners[last.args.station_id] = Some(last.args.user_id)
    /\ ~Running(last.before, last.args.station_id)

-----------------------------------------------------------------------------
(* C39: two scale calls by the same owner that overlap in time are
   serializable: when both have returned, the set of the owner's running
   stations and the profile each one runs are those that one of the two
   sequential orders of the calls would produce. *)

\* the running stations of a user and the profile each one runs
RunningProfiles(m, user_id) ==
    [sid \in RunningOf(m, user_id) |-> m.station_profiles[sid]]

\* the manager after the calls j and k, one after the other, from state st
Sequentially(st, j, k) ==
    LET cj == scales.calls[j]
        ck == scales.calls[k]
        first == scale_to(st.mgr, st.sims, cj.user_id, cj.target_count, cj.profile_name)
    IN scale_to(first.mgr, first.sims, ck.user_id, ck.target_count, ck.profile_name).mgr

\* both calls have returned without an exception
BothReturned ==
    \A k \in ScaleCalls : scales.calls[k].pc = "returned" /\ scales.calls[k].raised = None

OverlappingScalesSerializable ==
    BothReturned =>
        LET user_id == scales.calls["A"].user_id
            st == Val(scales.before)
        IN RunningProfiles(mgr, user_id)
              \in {RunningProfiles(Sequentially(st, "A", "B"), user_id),
                   RunningProfiles(Sequentially(st, "B", "A"), user_id)}

-----------------------------------------------------------------------------
(* C40: each profile operation on a session's store (SetChargingProfile,
   ClearChargingProfile including its all-connectors form,
   GetCompositeSchedule and the direct control-plane equivalents) runs to
   completion without yielding, so the currentLimit query of a metering tick
   never observes a partially applied add or clear. *)

\* the store is what the whole operation recorded in last leaves: after a
\* clear no profile matching the request is left on any connector it
\* addresses, after an accepted SetChargingProfile the connector holds the
\* profile once under its id, after a rejected one the store is as before
OperationComplete(ps) ==
    /\ Called("ClearChargingProfile") =>
          LET kwargs == last.args.kwargs IN
          \A c \in Connectors :
              AddressesAll(kwargs) \/ c = kwargs.connector_id
                 => \A q \in Range(get_profiles_for_connector(ps, c)) :
                       ~MatchesSupplied(q, kwargs)
    /\ Called("SetChargingProfile") =>
          LET stored == get_profiles_for_connector(ps, last.args.connector_id)
              parsed == parse_charging_profile(last.args.cs_charging_profiles)
          IN IF last.result.status = "Accepted"
             THEN Cardinality({i \in 1 .. Len(stored) : stored[i] = parsed.profile}) = 1
             ELSE ps = last.before

====
